---- MODULE Spec2Model ----
(***************************************************************************)
(* Model of the scoring core of "Am I Better Than Yesterday?":             *)
(*   - the bounded score enhancer (ai_pipeline/scoring/llm_enhancer.py),   *)
(*   - verdict / streak computation and persistence                        *)
(*     (services/scoring_service.py, models/daily_score.py).               *)
(* Python floats are modelled exactly: a score is an integer or a          *)
(* rational [n |-> numerator, d |-> denominator > 0] in lowest terms.      *)
(* An optional value (None) is the empty sequence, Some(x) is <<x>>.       *)
(***************************************************************************)
EXTENDS Integers, Sequences, FiniteSets, TLC

VARIABLES
    scorer,      \* the DeterministicScorer: the tables score_goal reads
    call,        \* the pending call of a pure function: its name and arguments
    ret,         \* what that call returned (<<>> while it has not returned)
    walk,        \* local variables of the loop of _calculate_goal_streak
    settings,    \* app.core.config.settings, as far as the enhancer reads it
    journals,    \* journal_entries table: the set of (user, date) with an entry
    goals,       \* user_goals table: user -> sequence of goal rows
    daily_scores,\* daily_scores table (committed rows)
    score_metrics,\* score_metrics table (committed rows)
    runs,        \* request -> state of its score_day call and of its session
    started,     \* number of score_day requests received so far
    edits,       \* number of goal updates made so far
    analysis_runs, \* analysis_runs table (committed rows)
    tasks        \* worker -> state of its run_analysis call

vars == <<scorer, call, ret, walk, settings, journals, goals, daily_scores,
          score_metrics, runs, started, edits, analysis_runs, tasks>>

None == <<>>

\* no run_analysis call is being served
NoTasks == <<>>
Some(x) == <<x>>

-----------------------------------------------------------------------------
(* Exact arithmetic on scores.                                             *)

RECURSIVE Gcd(_, _)
Gcd(a, b) == IF b = 0 THEN a ELSE Gcd(b, a % b)

AbsInt(x) == IF x < 0 THEN 0 - x ELSE x

\* the rational n/d (d > 0) in lowest terms
Rat(n, d) ==
    LET g == Gcd(AbsInt(n), d)
    IN  [n |-> n \div g, d |-> d \div g]

RatInt(k) == [n |-> k, d |-> 1]
RatSub(a, b) == Rat(a.n * b.d - b.n * a.d, a.d * b.d)
RatAbs(a) == [n |-> AbsInt(a.n), d |-> a.d]
RatLeq(a, b) == a.n * b.d <= b.n * a.d
RatLt(a, b) == a.n * b.d < b.n * a.d

-----------------------------------------------------------------------------
(* Program constants.                                                      *)

MinScore == 0
MaxScore == 100
GUARDRAIL == 20
SAME_THRESHOLD == 5

-----------------------------------------------------------------------------
(* Bounded enhancer: llm_enhancer.py                                       *)

\* EnhancedScore.validate_adjustment_bounds: the field validator of
\* "adjustment" clamps the reported adjustment to +/-20.
validate_adjustment_bounds(v) ==
    IF AbsInt(v) > GUARDRAIL
    THEN (IF v > 0 THEN GUARDRAIL ELSE 0 - GUARDRAIL)
    ELSE v

\* Construction of an EnhancedScore from the fields the collaborator gives:
\* adjusted_score must lie in [0, 100] (Field(ge=0, le=100)), adjustment goes
\* through its validator; original_score is taken as given.
EnhancedScoreValid(raw) ==
    raw.adjusted_score >= MinScore /\ raw.adjusted_score <= MaxScore

EnhancedScore(raw) ==
    [original_score |-> raw.original_score,
     adjusted_score |-> raw.adjusted_score,
     adjustment     |-> validate_adjustment_bounds(raw.adjustment),
     confidence     |-> raw.confidence]

\* enhance_score lines 98-108 with the clamp left out: only original_score is
\* overwritten
GuardrailClampMissing(base_score, response) ==
    [response EXCEPT !.original_score = base_score]

\* LLMScoreEnhancer.enhance_score lines 98-108, applied to the validated
\* response of the generation collaborator.
GuardrailClamp(base_score, response) ==
    LET adjustment == response.adjusted_score - base_score
        clamped == IF adjustment > 0 THEN GUARDRAIL ELSE 0 - GUARDRAIL
        r1 == IF AbsInt(adjustment) > GUARDRAIL
              THEN [response EXCEPT !.adjusted_score = base_score + clamped,
                                    !.adjustment = clamped]
              ELSE response
    IN  [r1 EXCEPT !.original_score = base_score]

\* LLMScoreEnhancer.enhance_score: the collaborator's answer raw is parsed
\* into an EnhancedScore (a validation error is raised to the caller), then
\* the guardrail is enforced.
LLM_enhance_score(base_score, raw) ==
    IF EnhancedScoreValid(raw)
    THEN [ok |-> TRUE, value |-> GuardrailClamp(base_score, EnhancedScore(raw))]
    ELSE [ok |-> FALSE, value |-> "ValidationError"]

\* MockLLMScoreEnhancer.enhance_score
Mock_enhance_score(base_score) ==
    LET raw == [original_score |-> base_score, adjusted_score |-> base_score,
                adjustment |-> 0, confidence |-> 100]
    IN  IF EnhancedScoreValid(raw)
        THEN [ok |-> TRUE, value |-> EnhancedScore(raw)]
        ELSE [ok |-> FALSE, value |-> "ValidationError"]

-----------------------------------------------------------------------------
(* Text.  A str is the sequence of its characters.                         *)

UpperCase == <<"A", "B", "C", "D", "E", "F", "G", "H", "I", "J", "K", "L", "M",
               "N", "O", "P", "Q", "R", "S", "T", "U", "V", "W", "X", "Y", "Z">>
LowerCase == <<"a", "b", "c", "d", "e", "f", "g", "h", "i", "j", "k", "l", "m",
               "n", "o", "p", "q", "r", "s", "t", "u", "v", "w", "x", "y", "z">>
DigitChars == {"0", "1", "2", "3", "4", "5", "6", "7", "8", "9"}

LowerChar(c) ==
    IF \E k \in 1..26 : UpperCase[k] = c
    THEN LowerCase[CHOOSE k \in 1..26 : UpperCase[k] = c]
    ELSE c

\* str.lower()
lower(s) == [k \in 1..Len(s) |-> LowerChar(s[k])]

IsSpace(c) == c = " "
IsDigit(c) == c \in DigitChars
\* a character of the regex class \w
IsWordChar(c) ==
    \/ IsDigit(c)
    \/ c = "_"
    \/ \E k \in 1..26 : c = UpperCase[k] \/ c = LowerCase[k]

\* sub in s
Contains(s, sub) ==
    IF sub = <<>> THEN TRUE
    ELSE \E k \in 1..(Len(s) - Len(sub) + 1) :
            s[k] = sub[1] /\ SubSeq(s, k, k + Len(sub) - 1) = sub

\* str.strip()
Strip(s) ==
    LET inked == {k \in 1..Len(s) : ~IsSpace(s[k])}
    IN  IF inked = {} THEN <<>>
        ELSE SubSeq(s, CHOOSE a \in inked : \A b \in inked : a <= b,
                       CHOOSE a \in inked : \A b \in inked : b <= a)

\* str.split(): the maximal runs of non-whitespace characters
RECURSIVE SplitFrom(_, _, _)
SplitFrom(s, k, cur) ==
    IF k > Len(s) THEN (IF cur = <<>> THEN <<>> ELSE <<cur>>)
    ELSE IF IsSpace(s[k])
    THEN (IF cur = <<>> THEN <<>> ELSE <<cur>>) \o SplitFrom(s, k + 1, <<>>)
    ELSE SplitFrom(s, k + 1, Append(cur, s[k]))

split(s) == SplitFrom(s, 1, <<>>)

IsTerminator(c) == c \in {".", "!", "?"}

\* re.split(r'[.!?]+', content): the pieces between runs of terminators
\* (pieces that are empty are dropped here; the caller skips them anyway)
RECURSIVE PiecesFrom(_, _, _)
PiecesFrom(s, k, cur) ==
    IF k > Len(s) THEN (IF cur = <<>> THEN <<>> ELSE <<cur>>)
    ELSE IF IsTerminator(s[k])
    THEN (IF cur = <<>> THEN <<>> ELSE <<cur>>) \o PiecesFrom(s, k + 1, <<>>)
    ELSE PiecesFrom(s, k + 1, Append(cur, s[k]))

\* the regex assertion \b before position k (1..Len(s)+1)
WordAt(s, k) == IF k >= 1 /\ k <= Len(s) THEN IsWordChar(s[k]) ELSE FALSE
Boundary(s, k) == WordAt(s, k - 1) # WordAt(s, k)

AllDigits(s, a, b) == a <= b /\ \A k \in a..b : IsDigit(s[k])
AllSpaces(s, a, b) == \A k \in a..b : IsSpace(s[k])

\* w occurs in s at position k as a whole word: \bw\b
WordMatch(s, k, w) ==
    /\ k + Len(w) - 1 <= Len(s)
    /\ s[k] = w[1]
    /\ Boundary(s, k)
    /\ Boundary(s, k + Len(w))
    /\ SubSeq(s, k, k + Len(w) - 1) = w

-----------------------------------------------------------------------------
(* DeterministicScorer: ai_pipeline/scoring/deterministic.py               *)

CATEGORY_KEYWORDS ==
    <<[name |-> <<"f", "i", "t", "n", "e", "s", "s">>,
        keywords |-> <<<<"w", "o", "r", "k", "o", "u", "t">>,
                      <<"e", "x", "e", "r", "c", "i", "s", "e">>,
                      <<"g", "y", "m">>, <<"r", "u", "n">>,
                      <<"r", "u", "n", "n", "i", "n", "g">>,
                      <<"w", "a", "l", "k">>,
                      <<"w", "e", "i", "g", "h", "t", "s">>,
                      <<"c", "a", "r", "d", "i", "o">>,
                      <<"p", "u", "s", "h", "u", "p", "s">>,
                      <<"s", "q", "u", "a", "t", "s">>, <<"y", "o", "g", "a">>,
                      <<"s", "t", "r", "e", "t", "c", "h">>,
                      <<"m", "i", "l", "e", "s">>, <<"s", "t", "e", "p", "s">>,
                      <<"a", "c", "t", "i", "v", "e">>>>],
       [name |-> <<"p", "r", "o", "d", "u", "c", "t", "i", "v", "i", "t", "y">>,
        keywords |-> <<<<"w", "o", "r", "k">>,
                      <<"p", "r", "o", "j", "e", "c", "t">>,
                      <<"t", "a", "s", "k">>,
                      <<"c", "o", "m", "p", "l", "e", "t", "e", "d">>,
                      <<"f", "i", "n", "i", "s", "h", "e", "d">>,
                      <<"s", "h", "i", "p", "p", "e", "d">>,
                      <<"m", "e", "e", "t", "i", "n", "g">>,
                      <<"c", "o", "d", "e">>, <<"c", "o", "d", "i", "n", "g">>,
                      <<"w", "r", "o", "t", "e">>, <<"b", "u", "i", "l", "t">>,
                      <<"c", "r", "e", "a", "t", "e", "d">>,
                      <<"d", "e", "l", "i", "v", "e", "r", "e", "d">>,
                      <<"d", "e", "a", "d", "l", "i", "n", "e">>>>],
       [name |-> <<"l", "e", "a", "r", "n", "i", "n", "g">>,
        keywords |-> <<<<"r", "e", "a", "d">>,
                      <<"r", "e", "a", "d", "i", "n", "g">>,
                      <<"b", "o", "o", "k">>,
                      <<"s", "t", "u", "d", "i", "e", "d">>,
                      <<"s", "t", "u", "d", "y">>,
                      <<"l", "e", "a", "r", "n", "e", "d">>,
                      <<"c", "o", "u", "r", "s", "e">>,
                      <<"c", "l", "a", "s", "s">>,
                      <<"t", "u", "t", "o", "r", "i", "a", "l">>,
                      <<"p", "r", "a", "c", "t", "i", "c", "e">>,
                      <<"s", "k", "i", "l", "l">>,
                      <<"c", "h", "a", "p", "t", "e", "r">>,
                      <<"p", "a", "g", "e", "s">>,
                      <<"l", "e", "s", "s", "o", "n">>>>],
       [name |-> <<"h", "e", "a", "l", "t", "h">>,
        keywords |-> <<<<"s", "l", "e", "e", "p">>, <<"s", "l", "e", "p", "t">>,
                      <<"w", "a", "t", "e", "r">>, <<"m", "e", "a", "l">>,
                      <<"a", "t", "e">>, <<"d", "i", "e", "t">>,
                      <<"v", "i", "t", "a", "m", "i", "n">>,
                      <<"m", "e", "d", "i", "t", "a", "t", "i", "o", "n">>,
                      <<"m", "e", "d", "i", "t", "a", "t", "e">>,
                      <<"r", "e", "s", "t">>,
                      <<"r", "e", "c", "o", "v", "e", "r", "y">>,
                      <<"h", "y", "d", "r", "a", "t", "i", "o", "n">>,
                      <<"n", "u", "t", "r", "i", "t", "i", "o", "n">>>>],
       [name |-> <<"d", "i", "s", "c", "i", "p", "l", "i", "n", "e">>,
        keywords |-> <<<<"w", "o", "k", "e">>, <<"e", "a", "r", "l", "y">>,
                      <<"r", "o", "u", "t", "i", "n", "e">>,
                      <<"h", "a", "b", "i", "t">>,
                      <<"c", "o", "n", "s", "i", "s", "t", "e", "n", "t">>,
                      <<"d", "a", "i", "l", "y">>,
                      <<"s", "t", "r", "e", "a", "k">>,
                      <<"m", "o", "r", "n", "i", "n", "g">>,
                      <<"s", "c", "h", "e", "d", "u", "l", "e">>,
                      <<"p", "l", "a", "n", "n", "e", "d">>,
                      <<"f", "o", "l", "l", "o", "w", "e", "d">>,
                      <<"s", "t", "u", "c", "k">>>>],
       [name |-> <<"w", "e", "l", "l", "b", "e", "i", "n", "g">>,
        keywords |-> <<<<"h", "a", "p", "p", "y">>,
                      <<"g", "r", "a", "t", "e", "f", "u", "l">>,
                      <<"m", "o", "o", "d">>,
                      <<"f", "e", "e", "l", "i", "n", "g">>,
                      <<"r", "e", "l", "a", "x", "e", "d">>,
                      <<"c", "a", "l", "m">>, <<"p", "e", "a", "c", "e">>,
                      <<"j", "o", "y">>, <<"c", "o", "n", "t", "e", "n", "t">>,
                      <<"m", "i", "n", "d", "f", "u", "l">>,
                      <<"p", "r", "e", "s", "e", "n", "t">>,
                      <<"b", "a", "l", "a", "n", "c", "e", "d">>>>]>>

EFFORT_POSITIVE ==
    <<<<"h", "a", "r", "d">>,
      <<"c", "h", "a", "l", "l", "e", "n", "g", "i", "n", "g">>,
      <<"p", "u", "s", "h", "e", "d">>, <<"i", "n", "t", "e", "n", "s", "e">>,
      <<"m", "a", "x", "i", "m", "u", "m">>, <<"b", "e", "s", "t">>,
      <<"c", "r", "u", "s", "h", "e", "d">>,
      <<"e", "x", "c", "e", "e", "d", "e", "d">>, <<"e", "x", "t", "r", "a">>,
      <<"a", "b", "o", "v", "e">>, <<"b", "e", "y", "o", "n", "d">>,
      <<"d", "i", "f", "f", "i", "c", "u", "l", "t">>>>

EFFORT_NEGATIVE ==
    <<<<"e", "a", "s", "y">>, <<"m", "i", "n", "i", "m", "a", "l">>,
      <<"q", "u", "i", "c", "k">>, <<"b", "r", "i", "e", "f">>,
      <<"s", "h", "o", "r", "t">>, <<"s", "i", "m", "p", "l", "e">>,
      <<"b", "a", "s", "i", "c">>, <<"h", "a", "l", "f">>,
      <<"b", "a", "r", "e", "l", "y">>, <<"a", "l", "m", "o", "s", "t">>,
      <<"s", "k", "i", "p", "p", "e", "d">>, <<"m", "i", "s", "s", "e", "d">>>>

ACTIVITY_VERBS ==
    <<<<"d", "i", "d">>, <<"c", "o", "m", "p", "l", "e", "t", "e", "d">>,
      <<"f", "i", "n", "i", "s", "h", "e", "d">>,
      <<"w", "o", "r", "k", "e", "d">>,
      <<"e", "x", "e", "r", "c", "i", "s", "e", "d">>,
      <<"p", "r", "a", "c", "t", "i", "c", "e", "d">>,
      <<"w", "r", "o", "t", "e">>, <<"r", "e", "a", "d">>,
      <<"s", "t", "u", "d", "i", "e", "d">>, <<"b", "u", "i", "l", "t">>,
      <<"c", "r", "e", "a", "t", "e", "d">>, <<"m", "a", "d", "e">>,
      <<"w", "e", "n", "t">>, <<"r", "a", "n">>>>

\* the units of _number_pattern: hours?|hrs?|minutes?|mins?|pages?|miles?|km|
\* reps?|sets?|times?
NumberUnits ==
    {<<"h", "o", "u", "r">>, <<"h", "o", "u", "r", "s">>, <<"h", "r">>,
     <<"h", "r", "s">>, <<"m", "i", "n", "u", "t", "e">>,
     <<"m", "i", "n", "u", "t", "e", "s">>, <<"m", "i", "n">>,
     <<"m", "i", "n", "s">>, <<"p", "a", "g", "e">>,
     <<"p", "a", "g", "e", "s">>, <<"m", "i", "l", "e">>,
     <<"m", "i", "l", "e", "s">>, <<"k", "m">>, <<"r", "e", "p">>,
     <<"r", "e", "p", "s">>, <<"s", "e", "t">>, <<"s", "e", "t", "s">>,
     <<"t", "i", "m", "e">>, <<"t", "i", "m", "e", "s">>}

\* the state of a scorer: the class tables every instance shares
DeterministicScorer ==
    [CATEGORY_KEYWORDS |-> CATEGORY_KEYWORDS,
     EFFORT_POSITIVE |-> EFFORT_POSITIVE,
     EFFORT_NEGATIVE |-> EFFORT_NEGATIVE,
     ACTIVITY_VERBS |-> ACTIVITY_VERBS]

\* _number_pattern.search(content): \b(\d+(?:\.\d+)?)\s*(?:unit)\b
number_pattern_search(s) ==
    \E a \in 1..Len(s) :
        /\ IsDigit(s[a])
        /\ Boundary(s, a)
        /\ \E b \in a..Len(s) :
            /\ AllDigits(s, a, b)
            /\ \E e \in {b} \cup {f \in (b + 2)..Len(s) :
                                    s[b + 1] = "." /\ AllDigits(s, b + 2, f)} :
                 \E k \in (e + 1)..Len(s) :
                    /\ AllSpaces(s, e + 1, k - 1)
                    /\ \E u \in NumberUnits :
                          /\ k + Len(u) - 1 <= Len(s)
                          /\ s[k] = u[1]
                          /\ SubSeq(s, k, k + Len(u) - 1) = u
                          /\ Boundary(s, k + Len(u))

\* len(_activity_pattern.findall(content)): the whole words that are verbs
activity_count(sc, s) ==
    Cardinality({k \in 1..Len(s) :
        \E v \in 1..Len(sc.ACTIVITY_VERBS) :
            WordMatch(s, k, sc.ACTIVITY_VERBS[v])})

\* lines 143-146 with an unknown category scored by the wellbeing keywords
get_keywords_no_fallback(sc, category) ==
    LET category_lower == lower(category)
        hits == {k \in 1..Len(sc.CATEGORY_KEYWORDS) :
                    sc.CATEGORY_KEYWORDS[k].name = category_lower}
    IN  IF hits # {}
        THEN sc.CATEGORY_KEYWORDS[CHOOSE k \in hits : TRUE].keywords
        ELSE sc.CATEGORY_KEYWORDS[Len(sc.CATEGORY_KEYWORDS)].keywords

\* _get_keywords_for_category (140-146)
get_keywords_for_category(sc, category) ==
    LET category_lower == lower(category)
        hits == {k \in 1..Len(sc.CATEGORY_KEYWORDS) :
                    sc.CATEGORY_KEYWORDS[k].name = category_lower}
    IN  IF hits # {}
        THEN sc.CATEGORY_KEYWORDS[CHOOSE k \in hits : TRUE].keywords
        ELSE <<category_lower>>

\* _category_in_description (148-152)
category_in_description(content, description) ==
    LET words == split(description)
    IN  \E k \in 1..Len(words) :
            Len(words[k]) > 3 /\ Contains(content, lower(words[k]))

\* _extract_evidence (154-170)
extract_evidence(content, keywords) ==
    IF keywords = <<>> THEN <<>>
    ELSE LET pieces == PiecesFrom(content, 1, <<>>)
             sentences == [k \in 1..Len(pieces) |-> Strip(pieces[k])]
             Cites(sentence) ==
                 /\ sentence # <<>>
                 /\ \E k \in 1..Len(keywords) :
                        Contains(lower(sentence), keywords[k])
         IN  SelectSeq(sentences, Cites)

\* the number of words of a table that occur in content
CountIn(table, content) ==
    Cardinality({k \in 1..Len(table) : Contains(content, table[k])})

Min(a, b) == IF a <= b THEN a ELSE b

\* lines 172-204 without the early return of lines 174-175
assess_effort_unguarded(sc, content, keyword_matches) ==
    LET effort_score == CountIn(sc.EFFORT_POSITIVE, content) * 2
                        - CountIn(sc.EFFORT_NEGATIVE, content)
                        + (IF number_pattern_search(content) THEN 2 ELSE 0)
                        + Min(activity_count(sc, content), 3)
    IN  IF effort_score >= 6 THEN "exceptional"
        ELSE IF effort_score >= 4 THEN "substantial"
        ELSE IF effort_score >= 2 THEN "moderate"
        ELSE IF effort_score >= 1 THEN "minimal"
        ELSE "none"

\* _assess_effort (172-204)
assess_effort(sc, content, keyword_matches) ==
    IF keyword_matches = <<>> THEN "none"
    ELSE LET positive_count == CountIn(sc.EFFORT_POSITIVE, content)
             negative_count == CountIn(sc.EFFORT_NEGATIVE, content)
             has_numbers == number_pattern_search(content)
             effort_score == positive_count * 2 - negative_count
                             + (IF has_numbers THEN 2 ELSE 0)
                             + Min(activity_count(sc, content), 3)
         IN  IF effort_score >= 6 THEN "exceptional"
             ELSE IF effort_score >= 4 THEN "substantial"
             ELSE IF effort_score >= 2 THEN "moderate"
             ELSE IF effort_score >= 1 THEN "minimal"
             ELSE "none"

\* effort_points.get(effort_level, 0) (225-232)
effort_points(effort_level) ==
    CASE effort_level = "minimal" -> 5
      [] effort_level = "moderate" -> 15
      [] effort_level = "substantial" -> 25
      [] effort_level = "exceptional" -> 30
      [] OTHER -> 0

\* lines 215-241 without the showing-up floor of 30
calculate_base_score_no_floor(showed_up, keyword_count, effort_level, has_quantifiers, evidence_count) ==
    IF ~showed_up THEN 0
    ELSE Min(100, Min(keyword_count * 5, 20)
                  + effort_points(effort_level)
                  + (IF has_quantifiers THEN 10 ELSE 0)
                  + Min(evidence_count * 3, 10))

\* lines 215-241 with the evidence counted after the cut to 3 of line 94
calculate_base_score_cut_evidence(showed_up, keyword_count, effort_level, has_quantifiers, evidence_count) ==
    IF ~showed_up THEN 0
    ELSE Min(100, 30 + Min(keyword_count * 5, 20)
                  + effort_points(effort_level)
                  + (IF has_quantifiers THEN 10 ELSE 0)
                  + Min(Min(evidence_count, 3) * 3, 10))

\* _calculate_base_score (206-241)
calculate_base_score(showed_up, keyword_count, effort_level, has_quantifiers, evidence_count) ==
    IF ~showed_up THEN 0
    ELSE Min(100, 30 + Min(keyword_count * 5, 20)
                  + effort_points(effort_level)
                  + (IF has_quantifiers THEN 10 ELSE 0)
                  + Min(evidence_count * 3, 10))

\* _generate_reasoning (243-263): the parts the sentence is formatted from
generate_reasoning(category, showed_up, keyword_matches, effort_level, base_score) ==
    IF ~showed_up THEN <<"No evidence of engagement with", category>>
    ELSE <<"Engaged with", category,
           SubSeq(keyword_matches, 1, Min(3, Len(keyword_matches))),
           effort_level, base_score>>

\* lines 56-66 with the effort words counted as engagement
showed_up_by_effort(sc, content_lower, keyword_matches, description) ==
    \/ Len(keyword_matches) > 0
    \/ category_in_description(content_lower, description)
    \/ CountIn(sc.EFFORT_POSITIVE, content_lower) > 0

\* lines 63-66
showed_up_of(sc, content_lower, keyword_matches, description) ==
    \/ Len(keyword_matches) > 0
    \/ category_in_description(content_lower, description)

\* score_goal (52-96); input is a GoalScoreInput
score_goal(sc, input) ==
    LET content_lower == lower(input.journal_content)
        keywords == get_keywords_for_category(sc, input.goal_category)
        InContent(kw) == Contains(content_lower, kw)
        keyword_matches == SelectSeq(keywords, InContent)
        evidence == extract_evidence(input.journal_content, keyword_matches)
        showed_up == showed_up_of(sc, content_lower, keyword_matches,
                                  input.goal_description)
        effort_level == assess_effort(sc, content_lower, keyword_matches)
        base_score == calculate_base_score(showed_up, Len(keyword_matches),
                          effort_level, number_pattern_search(content_lower),
                          Len(evidence))
    IN  [category |-> input.goal_category,
         base_score |-> base_score,
         showed_up |-> showed_up,
         effort_level |-> effort_level,
         evidence |-> SubSeq(evidence, 1, Min(3, Len(evidence))),
         reasoning |-> generate_reasoning(input.goal_category, showed_up,
                           keyword_matches, effort_level, base_score)]

\* a scorer that adds the words of the goal description to the keywords of
\* the category it scored
scorer_after_learning(sc, input) ==
    LET category_lower == lower(input.goal_category)
        words == split(lower(input.goal_description))
    IN  [sc EXCEPT !.CATEGORY_KEYWORDS =
            [k \in 1..Len(sc.CATEGORY_KEYWORDS) |->
                IF sc.CATEGORY_KEYWORDS[k].name = category_lower
                THEN [sc.CATEGORY_KEYWORDS[k] EXCEPT !.keywords = @ \o words]
                ELSE sc.CATEGORY_KEYWORDS[k]]]

\* the scorer's state after score_goal (52-96): the call assigns no attribute
\* of the scorer and changes no table
scorer_after(sc, input) == sc

-----------------------------------------------------------------------------
(* Verdict: scoring_service.py, _calculate_comparison                      *)

\* the verdict with the tolerance test made strict (< instead of <=)
VerdictStrict(delta) ==
    IF RatLt(RatAbs(delta), RatInt(SAME_THRESHOLD)) THEN "same"
    ELSE IF RatLt(RatInt(0), delta) THEN "better"
    ELSE "worse"

Verdict(delta) ==
    IF RatLeq(RatAbs(delta), RatInt(SAME_THRESHOLD)) THEN "same"
    ELSE IF RatLt(RatInt(0), delta) THEN "better"
    ELSE "worse"

\* ScoringService._calculate_comparison(today_score, yesterday_score);
\* yesterday_score is None or Some(score).
calculate_comparison(today_score, yesterday_score) ==
    IF yesterday_score = None
    THEN [today |-> today_score, yesterday |-> None, delta |-> None,
          verdict |-> "first_day"]
    ELSE LET delta == RatSub(today_score, yesterday_score[1])
         IN  [today |-> today_score, yesterday |-> yesterday_score,
              delta |-> Some(delta), verdict |-> Verdict(delta)]

-----------------------------------------------------------------------------
(* Streaks: scoring_service.py, _calculate_goal_streak                     *)

\* next((m for m in daily_score.metrics if m.category == category), None):
\* the first metric of the row with that category, as Some(metric) or None.
RECURSIVE FindMetric(_, _)
FindMetric(metrics, category) ==
    IF metrics = <<>> THEN None
    ELSE IF Head(metrics).category = category THEN Some(Head(metrics))
    ELSE FindMetric(Tail(metrics), category)

\* sorted(daily_scores, key=lambda x: x.score_date): a stable insertion sort
\* by ascending date.
RECURSIVE InsertByDate(_, _)
InsertByDate(row, sorted) ==
    IF sorted = <<>> THEN <<row>>
    ELSE IF row.score_date < Head(sorted).score_date THEN <<row>> \o sorted
    ELSE <<Head(sorted)>> \o InsertByDate(row, Tail(sorted))

RECURSIVE SortByDate(_)
SortByDate(rows) ==
    IF rows = <<>> THEN <<>>
    ELSE InsertByDate(rows[Len(rows)], SortByDate(SubSeq(rows, 1, Len(rows) - 1)))

\* the local variables of _calculate_goal_streak before its loop
StreakStart(category, daily_scores_arg) ==
    [category |-> category,
     sorted_scores |-> SortByDate(daily_scores_arg),
     i |-> 1,
     temp_streak |-> 0,
     longest_streak |-> 0,
     last_improvement_date |-> None,
     prev_score |-> None]

\* the test of line 306 with the tolerance forgotten
ContinuesNoTolerance(cur, prev) == cur >= prev

\* does the streak continue from prev to cur?  (line 306)
Continues(cur, prev) == cur >= prev - SAME_THRESHOLD

\* lines 295-299 without breaking the streak
GapIgnored(w) == [w EXCEPT !.i = @ + 1]

\* lines 295-299: the category was not scored that day
GapReset(w) ==
    [w EXCEPT !.temp_streak = 0, !.prev_score = None, !.i = @ + 1]

\* lines 301-318 with last_improvement_date cleared when a streak restarts
ScoredDayClearing(w, score_date, current_score) ==
    LET cont == w.prev_score # None /\ Continues(current_score, w.prev_score[1])
        t == IF cont THEN w.temp_streak + 1 ELSE 1
    IN  [w EXCEPT !.temp_streak = t,
                  !.last_improvement_date = IF cont THEN Some(score_date) ELSE None,
                  !.longest_streak = IF t > @ THEN t ELSE @,
                  !.prev_score = Some(current_score),
                  !.i = @ + 1]

\* lines 301-318: the day carries the metric with score current_score
ScoredDay(w, score_date, current_score) ==
    LET t == IF w.prev_score = None THEN 1
             ELSE IF Continues(current_score, w.prev_score[1])
                  THEN w.temp_streak + 1
                  ELSE 1
        lid == IF w.prev_score # None
                  /\ Continues(current_score, w.prev_score[1])
               THEN Some(score_date)
               ELSE w.last_improvement_date
    IN  [w EXCEPT !.temp_streak = t,
                  !.last_improvement_date = lid,
                  !.longest_streak = IF t > @ THEN t ELSE @,
                  !.prev_score = Some(current_score),
                  !.i = @ + 1]

\* one iteration of the loop (lines 289-318) on sorted_scores[w.i]
StreakBody(w) ==
    LET daily_score == w.sorted_scores[w.i]
        metric == FindMetric(daily_score.metrics, w.category)
    IN  IF metric = None
        THEN GapReset(w)
        ELSE ScoredDay(w, daily_score.score_date, metric[1].score)

\* the calendar days a stored history may cover
MaxDays == 5

\* lines 320-331 with a streak that expires when the last stored day is not
\* the last day of the calendar
StreakResultExpiring(w) ==
    [category |-> w.category,
     current_streak |->
         IF w.sorted_scores # <<>>
            /\ w.sorted_scores[Len(w.sorted_scores)].score_date = MaxDays
         THEN w.temp_streak ELSE 0,
     longest_streak |-> w.longest_streak,
     last_improvement_date |-> w.last_improvement_date]

\* lines 320-331 reporting the longest streak as the current one
StreakResultLongest(w) ==
    [category |-> w.category,
     current_streak |-> w.longest_streak,
     longest_streak |-> w.longest_streak,
     last_improvement_date |-> w.last_improvement_date]

\* lines 320-331: the StreakInfo returned after the loop
StreakResult(w) ==
    [category |-> w.category,
     current_streak |-> IF w.sorted_scores # <<>> THEN w.temp_streak ELSE 0,
     longest_streak |-> w.longest_streak,
     last_improvement_date |-> w.last_improvement_date]

RECURSIVE StreakLoop(_)
StreakLoop(w) ==
    IF w.i > Len(w.sorted_scores) THEN w ELSE StreakLoop(StreakBody(w))

\* ScoringService._calculate_goal_streak(category, daily_scores)
calculate_goal_streak(category, daily_scores_arg) ==
    StreakResult(StreakLoop(StreakStart(category, daily_scores_arg)))

-----------------------------------------------------------------------------
(* The tables and what score_day reads from them.                          *)

Users == {"u1", "u2"}
MaxDate == 2
Dates == 1..MaxDate
Runs == {1, 2}
MaxRequests == 2
MaxGoalEdits == 1

Tables == [scores |-> daily_scores, metrics |-> score_metrics]

\* select(JournalEntry).where(user_id, entry_date) ... scalar_one_or_none()
get_journal_entry(user_id, entry_date) == <<user_id, entry_date>> \in journals

\* select(UserGoal).where(user_id, is_active == True)
IsActive(g) == g.is_active
get_active_goals(user_id) == SelectSeq(goals[user_id], IsActive)

\* the rows of daily_scores for one user and date
ScoresOn(scores, user_id, score_date) ==
    {s \in scores : s.user_id = user_id /\ s.score_date = score_date}

\* a set of rows as a sequence, by descending key (date, then id)
RowKey(x) == x.score_date * 1000 + x.id
RECURSIVE DescSeq(_)
DescSeq(S) ==
    IF S = {} THEN <<>>
    ELSE LET top == CHOOSE x \in S : \A y \in S : RowKey(y) <= RowKey(x)
         IN  <<top>> \o DescSeq(S \ {top})

RECURSIVE AscById(_)
AscById(S) ==
    IF S = {} THEN <<>>
    ELSE LET low == CHOOSE x \in S : \A y \in S : x.id <= y.id
         IN  <<low>> \o AscById(S \ {low})

\* DailyScore.metrics of a row (relationship, selectinload)
MetricsOf(metrics, daily_score_id) ==
    AscById({m \in metrics : m.daily_score_id = daily_score_id})

\* select(DailyScore).options(selectinload(metrics)).where(user_id)
\*   .order_by(score_date.desc()): the rows with their metrics collections
LoadHistory(t, user_id) ==
    LET rows == DescSeq({s \in t.scores : s.user_id = user_id})
    IN  [k \in 1..Len(rows) |->
            [id |-> rows[k].id, score_date |-> rows[k].score_date,
             metrics |-> MetricsOf(t.metrics, rows[k].id)]]

-----------------------------------------------------------------------------
(* DeterministicScorer.score_entry.                                        *)

\* the goals score_entry would score if it did not skip inactive goals
entry_goals_all(goals_arg) == goals_arg

\* the goals score_entry scores: lines 106-108
entry_goals(goals_arg) == SelectSeq(goals_arg, IsActive)

\* sum over goal_scores of base_score * (1.0 if showed_up else 0.5), in halves
RECURSIVE TotalWeightedHalves(_)
TotalWeightedHalves(goal_scores) ==
    IF goal_scores = <<>> THEN 0
    ELSE (IF Head(goal_scores).showed_up
          THEN 2 * Head(goal_scores).base_score
          ELSE Head(goal_scores).base_score)
         + TotalWeightedHalves(Tail(goal_scores))

\* score_entry (98-138)
score_entry(sc, journal_content, goals_arg) ==
    LET scored == entry_goals(goals_arg)
        goal_scores == [k \in 1..Len(scored) |->
            score_goal(sc, [goal_category |-> scored[k].category,
                            goal_description |-> scored[k].description,
                            journal_content |-> journal_content])]
        goals_addressed ==
            Cardinality({k \in 1..Len(goal_scores) : goal_scores[k].showed_up})
        goals_total == Len(goal_scores)
        overall_engagement ==
            IF goals_total = 0 THEN RatInt(0)
            ELSE Rat(TotalWeightedHalves(goal_scores), 2 * goals_total)
    IN  [goal_scores |-> goal_scores,
         overall_engagement |->
             IF RatLeq(RatInt(100), overall_engagement) THEN RatInt(100)
             ELSE overall_engagement,
         goals_addressed |-> goals_addressed,
         goals_total |-> goals_total]

-----------------------------------------------------------------------------
(* score_day step 5: GoalScoreDetail and the composite.                    *)

\* GoalScoreDetail(...) validates its fields (schemas/score.py 65-77)
GoalScoreDetailValid(d) ==
    /\ d.base_score >= MinScore /\ d.base_score <= MaxScore
    /\ d.enhanced_score >= MinScore /\ d.enhanced_score <= MaxScore
    /\ d.weight > 0
    /\ d.weighted_score >= MinScore /\ d.weighted_score <= MaxScore

\* lines 101-119 for one goal: base is the deterministic base_score, enh the
\* EnhancedScore of that goal
GoalDetail(goal, base, enh) ==
    [category |-> goal.category,
     base_score |-> base,
     enhanced_score |-> enh.adjusted_score,
     adjustment |-> enh.adjustment,
     weight |-> goal.weight,
     weighted_score |-> enh.adjusted_score * goal.weight]

RECURSIVE SumWeighted(_)
SumWeighted(details) ==
    IF details = <<>> THEN 0
    ELSE Head(details).weighted_score + SumWeighted(Tail(details))

RECURSIVE SumWeight(_)
SumWeight(details) ==
    IF details = <<>> THEN 0
    ELSE Head(details).weight + SumWeight(Tail(details))

\* line 121
CompositeScore(details) ==
    IF SumWeight(details) > 0
    THEN Rat(SumWeighted(details), SumWeight(details))
    ELSE RatInt(0)

-----------------------------------------------------------------------------
(* score_day as a sequence of steps of one request r; each step is one     *)
(* awaited database statement together with the computation that follows.  *)

Categories == {"fitness", "learning", "health"}
\* base scores the deterministic scorer hands to score_day
BaseScores == {80}
\* adjusted_score values the generation collaborator proposes; the last one
\* lies outside the EnhancedScore schema
Proposals == {50, 100, 120}

NoTx == [kind |-> "none", row |-> None, deleted |-> {}, lock |-> None]

IdleRun ==
    [pc |-> "idle", user_id |-> "u1", score_date |-> 1, goals |-> <<>>,
     enhanced |-> <<>>, goal_details |-> <<>>, composite_score |-> RatInt(0),
     yesterday_score |-> None, comparison |-> None, streaks |-> <<>>,
     loaded |-> <<>>, tx |-> NoTx, created |-> {}, error |-> "", http |-> 0,
     failed_at |-> "",
     before |-> [scores |-> {}, metrics |-> {}]]

InFlight(r) == runs[r].pc \notin {"idle", "done", "failed"}

\* trigger_scoring (api/v1/scores.py 46-58): a ValueError becomes HTTP 404,
\* pydantic's ValidationError is a ValueError; anything else is a 500.
HttpStatus(error) ==
    IF error \in {"NoJournal", "NoActiveGoals", "ValidationError"} THEN 404
    ELSE IF error = "Cancelled" THEN 0
    ELSE 500

\* the request ends with an exception: the session is closed without a
\* commit, so whatever it flushed is rolled back and its locks are released
Failed(run, error) ==
    [IdleRun EXCEPT !.pc = "failed", !.error = error, !.http = HttpStatus(error),
                    !.failed_at = run.pc,
                    !.user_id = run.user_id, !.score_date = run.score_date,
                    !.goals = run.goals, !.enhanced = run.enhanced,
                    !.before = run.before]

Start(r, u, d) ==
    /\ runs[r].pc = "idle"
    /\ started < MaxRequests
    /\ started' = started + 1
    /\ runs' = [runs EXCEPT ![r] = [IdleRun EXCEPT !.pc = "get_journal",
                   !.user_id = u, !.score_date = d, !.before = Tables]]
    /\ UNCHANGED <<analysis_runs, tasks, scorer, call, ret, walk, settings, journals, goals, daily_scores,
                   score_metrics, edits>>

\* lines 68-71 with the check of line 70 left out
JournalStepUnchecked(run) == [run EXCEPT !.pc = "get_goals"]

\* lines 68-71
JournalStep(run) ==
    IF get_journal_entry(run.user_id, run.score_date)
    THEN [run EXCEPT !.pc = "get_goals"]
    ELSE Failed(run, "NoJournal")

GetJournal(r) ==
    /\ runs[r].pc = "get_journal"
    /\ runs' = [runs EXCEPT ![r] = JournalStep(runs[r])]
    /\ UNCHANGED <<analysis_runs, tasks, scorer, call, ret, walk, settings, journals, goals, daily_scores,
                   score_metrics, started, edits>>

\* lines 73-76
GoalsStep(run) ==
    LET gs == get_active_goals(run.user_id)
    IN  IF gs = <<>>
        THEN Failed(run, "NoActiveGoals")
        ELSE [run EXCEPT !.pc = "score", !.goals = gs]

GetGoals(r) ==
    /\ runs[r].pc = "get_goals"
    /\ runs' = [runs EXCEPT ![r] = GoalsStep(runs[r])]
    /\ UNCHANGED <<analysis_runs, tasks, scorer, call, ret, walk, settings, journals, goals, daily_scores,
                   score_metrics, started, edits>>

\* what the collaborator answers for a proposal p: it echoes the base score
\* and reports the adjustment it meant
Reply(base, p) ==
    [original_score |-> base, adjusted_score |-> p, adjustment |-> p - base,
     confidence |-> 80]

\* one enhance_score call of the enhancer that _get_llm_enhancer selected
Enhance(base, p) ==
    IF settings = "key" THEN LLM_enhance_score(base, Reply(base, p))
    ELSE Mock_enhance_score(base)

\* lines 78-121: deterministic scores (bs), one enhancement per goal (ps the
\* collaborator's proposals), the GoalScoreDetail rows and the composite
ScoreStep(run, bs, ps) ==
    LET n == Len(run.goals)
        enh == [i \in 1..n |-> Enhance(bs[i], ps[i])]
        det == [i \in 1..n |-> GoalDetail(run.goals[i], bs[i], enh[i].value)]
    IN  IF settings = "no_attribute"
        THEN Failed(run, "AttributeError")
        ELSE IF \E i \in 1..n : ~enh[i].ok
        THEN Failed(run, "LLMError")
        ELSE IF \E i \in 1..n : ~GoalScoreDetailValid(det[i])
        THEN Failed([run EXCEPT !.enhanced = [i \in 1..n |-> enh[i].value]],
                    "ValidationError")
        ELSE [run EXCEPT !.pc = "get_yesterday",
                         !.enhanced = [i \in 1..n |-> enh[i].value],
                         !.goal_details = det,
                         !.composite_score = CompositeScore(det)]

ScoreGoals(r) ==
    /\ runs[r].pc = "score"
    /\ \E bs \in [1..Len(runs[r].goals) -> BaseScores],
          ps \in [1..Len(runs[r].goals) -> Proposals] :
          runs' = [runs EXCEPT ![r] = ScoreStep(runs[r], bs, ps)]
    /\ UNCHANGED <<analysis_runs, tasks, scorer, call, ret, walk, settings, journals, goals, daily_scores,
                   score_metrics, started, edits>>

\* Field(ge=0, le=100) on a float field
InScoreRange(x) == RatLeq(RatInt(MinScore), x) /\ RatLeq(x, RatInt(MaxScore))

\* ScoreComparison(...) validates today and yesterday (schemas/score.py 57-62)
ScoreComparisonValid(today_score, yesterday_score) ==
    /\ InScoreRange(today_score)
    /\ IF yesterday_score = None THEN TRUE ELSE InScoreRange(yesterday_score[1])

\* _get_yesterday_score (203-213) and _calculate_comparison (line 125)
YesterdayStep(run, t) ==
    LET rows == ScoresOn(t.scores, run.user_id, run.score_date - 1)
    IN  IF Cardinality(rows) > 1
        THEN Failed(run, "MultipleResultsFound")
        ELSE LET y == IF rows = {} THEN None
                      ELSE Some((CHOOSE x \in rows : TRUE).composite_score)
             IN  IF ~ScoreComparisonValid(run.composite_score, y)
                 THEN Failed(run, "ValidationError")
                 ELSE [run EXCEPT !.pc = "streaks", !.yesterday_score = y,
                         !.comparison =
                             Some(calculate_comparison(run.composite_score, y))]

GetYesterday(r) ==
    /\ runs[r].pc = "get_yesterday"
    /\ runs' = [runs EXCEPT ![r] = YesterdayStep(runs[r], Tables)]
    /\ UNCHANGED <<analysis_runs, tasks, scorer, call, ret, walk, settings, journals, goals, daily_scores,
                   score_metrics, started, edits>>

\* _calculate_streaks (246-268): the history is read once, with the metrics
\* of every row; the rows stay in the session's identity map (loaded)
StreaksStep(run, t) ==
    LET hist == LoadHistory(t, run.user_id)
    IN  [run EXCEPT !.pc = "persist_select", !.loaded = hist,
            !.streaks = [i \in 1..Len(run.goal_details) |->
                calculate_goal_streak(run.goal_details[i].category, hist)]]

CalcStreaks(r) ==
    /\ runs[r].pc = "streaks"
    /\ runs' = [runs EXCEPT ![r] = StreaksStep(runs[r], Tables)]
    /\ UNCHANGED <<analysis_runs, tasks, scorer, call, ret, walk, settings, journals, goals, daily_scores,
                   score_metrics, started, edits>>

\* get_streaks (152-179): one StreakInfo per active goal, over the stored
\* history of the user
get_streaks(t, user_id) ==
    LET gs == get_active_goals(user_id)
        hist == LoadHistory(t, user_id)
    IN  [i \in 1..Len(gs) |-> calculate_goal_streak(gs[i].category, hist)]

-----------------------------------------------------------------------------
(* _persist_score (333-388) in three steps: the select, the flush and the  *)
(* commit.  A session's writes are pending in runs[r].tx until it commits. *)

\* the metrics collection of the row found by the select of line 344: a row
\* the session loaded before keeps the collection it was loaded with
LoadedMetrics(run, t, id) ==
    IF \E k \in 1..Len(run.loaded) : run.loaded[k].id = id
    THEN LET k == CHOOSE k \in 1..Len(run.loaded) : run.loaded[k].id = id
         IN  run.loaded[k].metrics
    ELSE MetricsOf(t.metrics, id)

\* the DailyScore row this run writes (lines 356-358 and 365-371)
ScoreRow(run, id) ==
    [id |-> id, user_id |-> run.user_id, score_date |-> run.score_date,
     composite_score |-> run.composite_score,
     verdict |-> run.comparison[1].verdict,
     comparison_data |-> [yesterday |-> run.yesterday_score,
                          delta |-> run.comparison[1].delta]]

\* lines 344-372 without deleting the old metrics
UpsertTxKeepMetrics(run, rows, t) ==
    IF rows = {}
    THEN [kind |-> "insert", row |-> Some(ScoreRow(run, 0)), deleted |-> {},
          lock |-> None]
    ELSE LET existing_score == CHOOSE x \in rows : TRUE
         IN  [kind |-> "update",
              row |-> Some(ScoreRow(run, existing_score.id)),
              deleted |-> {},
              lock |-> Some(existing_score.id)]

\* lines 344-372 without looking for an existing row
UpsertTxAlwaysInsert(run, rows, t) ==
    [kind |-> "insert", row |-> Some(ScoreRow(run, 0)), deleted |-> {},
     lock |-> None]

\* lines 344-372: look for the row of (user, date); update it and delete its
\* metrics, or create a new row (whose id the flush assigns)
UpsertTx(run, rows, t) ==
    IF rows = {}
    THEN [kind |-> "insert", row |-> Some(ScoreRow(run, 0)), deleted |-> {},
          lock |-> None]
    ELSE LET existing_score == CHOOSE x \in rows : TRUE
             old == LoadedMetrics(run, t, existing_score.id)
         IN  [kind |-> "update",
              row |-> Some(ScoreRow(run, existing_score.id)),
              deleted |-> {old[k].id : k \in 1..Len(old)},
              lock |-> Some(existing_score.id)]

\* the select of lines 344-352 ending in scalars().first(): of several rows
\* the one with the lowest id is taken
SelectStepFirst(run, t) ==
    LET rows == ScoresOn(t.scores, run.user_id, run.score_date)
        first == {x \in rows : \A y \in rows : x.id <= y.id}
    IN  [run EXCEPT !.pc = "persist_flush", !.tx = UpsertTx(run, first, t)]

\* lines 344-352: scalar_one_or_none() raises when the select returns more
\* than one row
SelectStep(run, t) ==
    LET rows == ScoresOn(t.scores, run.user_id, run.score_date)
    IN  IF Cardinality(rows) > 1
        THEN Failed(run, "MultipleResultsFound")
        ELSE [run EXCEPT !.pc = "persist_flush", !.tx = UpsertTx(run, rows, t)]

PersistSelect(r) ==
    /\ runs[r].pc = "persist_select"
    /\ runs' = [runs EXCEPT ![r] = SelectStep(runs[r], Tables)]
    /\ UNCHANGED <<analysis_runs, tasks, scorer, call, ret, walk, settings, journals, goals, daily_scores,
                   score_metrics, started, edits>>

\* the effect of a transaction if (user_id, score_date) were a unique key that
\* the INSERT replaces and the DELETE removed every metric of the row
ApplyTxUnique(t, tx, new_metrics) ==
    LET same == {s \in t.scores : /\ s.user_id = tx.row[1].user_id
                                  /\ s.score_date = tx.row[1].score_date}
        gone == {s.id : s \in same}
    IN  [scores |-> (t.scores \ same) \cup {tx.row[1]},
         metrics |->
            {m \in t.metrics : m.daily_score_id \notin gone} \cup new_metrics]

\* the effect of a transaction on the tables: UPDATE of the row by id (or
\* INSERT of the new row), DELETE of the old metrics by id, INSERT of the new
ApplyTx(t, tx, new_metrics) ==
    [scores |->
        IF tx.kind = "update"
        THEN {IF s.id = tx.row[1].id THEN tx.row[1] ELSE s : s \in t.scores}
        ELSE t.scores \cup {tx.row[1]},
     metrics |->
        {m \in t.metrics : m.id \notin tx.deleted} \cup new_metrics]

\* a flush that other sessions see at once (no transaction around it)
VisibleAfterFlushAutocommit(t, tx) == ApplyTx(t, tx, {})

\* what other sessions see after this session's flush (line 375): nothing
\* new, the statements run inside the open transaction
VisibleAfterFlush(t, tx) == t

\* Primary keys are uuid4 values: opaque and never reused.  A new key is
\* modelled as the least number that no row and no session refers to.
UsedIds ==
    {s.id : s \in daily_scores} \cup {m.id : m \in score_metrics}
    \cup UNION {runs[q].tx.deleted : q \in Runs}
    \cup UNION {{runs[q].tx.row[k].id : k \in 1..Len(runs[q].tx.row)} : q \in Runs}
    \cup UNION {{runs[q].loaded[k].id : k \in 1..Len(runs[q].loaded)} : q \in Runs}
    \cup UNION {UNION {{runs[q].loaded[k].metrics[j].id :
                          j \in 1..Len(runs[q].loaded[k].metrics)} :
                       k \in 1..Len(runs[q].loaded)} : q \in Runs}

RECURSIVE NthFree(_, _)
NthFree(n, from) ==
    IF from \in UsedIds THEN NthFree(n, from + 1)
    ELSE IF n = 1 THEN from
    ELSE NthFree(n - 1, from + 1)

\* the i-th fresh primary key
FreshId(i) == NthFree(i, 1)

\* row locks: a session that flushed an UPDATE/DELETE holds the row of the
\* DailyScore until it commits or rolls back
HoldsLock(q, id) ==
    runs[q].pc = "persist_commit" /\ runs[q].tx.lock = Some(id)

\* the statements of r's flush do not wait for another session's row lock
CanFlush(r) ==
    IF runs[r].tx.lock = None THEN TRUE
    ELSE \A q \in Runs \ {r} : ~HoldsLock(q, runs[r].tx.lock[1])

PersistFlush(r) ==
    LET run == runs[r]
        id == IF run.tx.kind = "insert" THEN FreshId(1) ELSE run.tx.row[1].id
        tx == [run.tx EXCEPT !.row = Some(ScoreRow(run, id))]
        seen == VisibleAfterFlush(Tables, tx)
    IN  /\ run.pc = "persist_flush"
        /\ CanFlush(r)
        /\ runs' = [runs EXCEPT ![r] = [run EXCEPT !.pc = "persist_commit",
                                                   !.tx = tx]]
        /\ daily_scores' = seen.scores
        /\ score_metrics' = seen.metrics
        /\ UNCHANGED <<analysis_runs, tasks, scorer, call, ret, walk, settings, journals, goals, started, edits>>

\* lines 378-386: one ScoreMetric per GoalScoreDetail
NewMetrics(run) ==
    {[id |-> FreshId(i),
      daily_score_id |-> run.tx.row[1].id,
      category |-> run.goal_details[i].category,
      score |-> run.goal_details[i].enhanced_score,
      weight |-> run.goal_details[i].weight] : i \in 1..Len(run.goal_details)}

\* ScoringResponse(...) validates composite_score (schemas/score.py 80-87)
ScoringResponseValid(run) == InScoreRange(run.composite_score)

\* line 388: the commit makes the whole transaction visible; lines 143-150
\* build the response from what was computed before
PersistCommit(r) ==
    LET run == runs[r]
        made == NewMetrics(run)
        after == ApplyTx(Tables, run.tx, made)
    IN  /\ run.pc = "persist_commit"
        /\ daily_scores' = after.scores
        /\ score_metrics' = after.metrics
        /\ runs' = [runs EXCEPT ![r] =
                       IF ScoringResponseValid(run)
                       THEN [run EXCEPT !.pc = "done", !.created = made,
                                        !.http = 200,
                                        !.tx = [run.tx EXCEPT !.lock = None]]
                       ELSE Failed(run, "ValidationError")]
        /\ UNCHANGED <<analysis_runs, tasks, scorer, call, ret, walk, settings, journals, goals, started, edits>>

\* the request is cancelled, or a statement fails, before the commit
Abort(r) ==
    /\ InFlight(r)
    /\ runs' = [runs EXCEPT ![r] = Failed(runs[r], "Cancelled")]
    /\ UNCHANGED <<analysis_runs, tasks, scorer, call, ret, walk, settings, journals, goals, daily_scores,
                   score_metrics, started, edits>>

\* the response (or the error) is delivered and the session is closed
Respond(r) ==
    /\ runs[r].pc \in {"done", "failed"}
    /\ runs' = [runs EXCEPT ![r] = IdleRun]
    /\ UNCHANGED <<analysis_runs, tasks, scorer, call, ret, walk, settings, journals, goals, daily_scores,
                   score_metrics, started, edits>>

\* GoalService.update(goal, is_active=...) by the goal's owner
GoalUpdate(u, i) ==
    /\ i \in 1..Len(goals[u])
    /\ \A q \in Runs : runs[q].pc = "idle"
    /\ edits < MaxGoalEdits
    /\ edits' = edits + 1
    /\ goals' = [goals EXCEPT ![u][i].is_active = ~@]
    /\ UNCHANGED <<analysis_runs, tasks, scorer, call, ret, walk, settings, journals, daily_scores,
                   score_metrics, runs, started>>

\* weights a goal's owner may set with GoalService.update(goal, weight=...):
\* the update accepts any number
EditedWeights == {0}

\* GoalService.update(goal, weight=w) by the goal's owner
GoalUpdateWeight(u, i, w) ==
    /\ i \in 1..Len(goals[u])
    /\ goals[u][i].weight # w
    /\ \A q \in Runs : runs[q].pc = "idle"
    /\ edits < MaxGoalEdits
    /\ edits' = edits + 1
    /\ goals' = [goals EXCEPT ![u][i].weight = w]
    /\ UNCHANGED <<analysis_runs, tasks, scorer, call, ret, walk, settings, journals, daily_scores,
                   score_metrics, runs, started>>

-----------------------------------------------------------------------------
(* Specifications.                                                         *)

Goal(c, w, a) == [category |-> c, weight |-> w, is_active |-> a]

NoCall == [fn |-> "none"]

\* the scorer is not exercised: the base scores are inputs here
NoScorer == <<>>

InitService ==
    /\ call = NoCall
    /\ ret = None
    /\ walk = StreakStart("fitness", <<>>)
    /\ settings \in {"no_attribute", "no_key", "key"}
    /\ journals = {<<u, d>> \in Users \X Dates : u = "u1" \/ d = 1}
    /\ goals = [u \in Users |->
                  IF u = "u1"
                  THEN <<Goal("fitness", 1, TRUE), Goal("learning", 2, FALSE),
                         Goal("health", 1, TRUE)>>
                  ELSE <<Goal("learning", 1, TRUE)>>]
    /\ daily_scores = {}
    /\ score_metrics = {}
    /\ runs = [r \in Runs |-> IdleRun]
    /\ started = 0
    /\ edits = 0
    /\ analysis_runs = {}
    /\ tasks = NoTasks
    /\ scorer = NoScorer

Step(r) ==
    \/ GetJournal(r)
    \/ GetGoals(r)
    \/ ScoreGoals(r)
    \/ GetYesterday(r)
    \/ CalcStreaks(r)
    \/ PersistSelect(r)
    \/ PersistFlush(r)
    \/ PersistCommit(r)
    \/ Abort(r)
    \/ Respond(r)

\* requests are served one after the other
StartAlone(u, d) ==
    /\ \A q \in Runs : runs[q].pc = "idle"
    /\ Start(1, u, d)

Next ==
    \/ \E u \in Users, d \in Dates : StartAlone(u, d)
    \/ \E r \in Runs : Step(r)
    \/ \E u \in Users, i \in 1..3 : GoalUpdate(u, i)
    \/ \E u \in Users, i \in 1..3, w \in EditedWeights : GoalUpdateWeight(u, i, w)

Init == InitService

Spec == Init /\ [][Next]_vars

-----------------------------------------------------------------------------
(* The enhancer alone: every base score against every answer of the        *)
(* generation collaborator.                                                *)

\* how far outside [0, 100] the collaborator's proposals are drawn
Slack == 5
\* original_score values the collaborator may echo instead of the base score
Echoes == {0, 100}
\* adjustment values the collaborator may report
ReportedAdjustments == {0 - 50, 0, 35}

InitOther ==
    /\ walk = StreakStart("fitness", <<>>)
    /\ settings = "key"
    /\ journals = {}
    /\ goals = [u \in Users |-> <<>>]
    /\ daily_scores = {}
    /\ score_metrics = {}
    /\ runs = [r \in Runs |-> IdleRun]
    /\ started = 0
    /\ edits = 0
    /\ analysis_runs = {}
    /\ tasks = NoTasks

InitEnhance ==
    /\ InitOther
    /\ scorer = NoScorer
    /\ ret = None
    /\ \E b \in MinScore..MaxScore,
          p \in (MinScore - Slack)..(MaxScore + Slack),
          a \in ReportedAdjustments :
          \E o \in Echoes \cup {b} :
             \/ call = [fn |-> "enhance_score", base_score |-> b,
                        raw |-> [original_score |-> o, adjusted_score |-> p,
                                 adjustment |-> a, confidence |-> 80]]
             \/ /\ p = b /\ a = 0 /\ o = b
                /\ call = [fn |-> "mock_enhance_score", base_score |-> b,
                           raw |-> [original_score |-> o, adjusted_score |-> p,
                                    adjustment |-> a, confidence |-> 100]]

LLMEnhance ==
    /\ call.fn = "enhance_score"
    /\ ret = None
    /\ ret' = Some(LLM_enhance_score(call.base_score, call.raw))
    /\ UNCHANGED <<analysis_runs, tasks, scorer, call, walk, settings, journals, goals, daily_scores,
                   score_metrics, runs, started, edits>>

MockEnhance ==
    /\ call.fn = "mock_enhance_score"
    /\ ret = None
    /\ ret' = Some(Mock_enhance_score(call.base_score))
    /\ UNCHANGED <<analysis_runs, tasks, scorer, call, walk, settings, journals, goals, daily_scores,
                   score_metrics, runs, started, edits>>

NextEnhance == LLMEnhance \/ MockEnhance

SpecEnhance == InitEnhance /\ [][NextEnhance]_vars

-----------------------------------------------------------------------------
(* enhance_scoring_result: the enhancement calls of one scoring result.    *)

MaxLookupGoals == 3
LookupCategories == {"fitness", "health"}
LookupDescriptions == {"run 5k", "lift weights"}
LookupTargets == {3, 5}

\* one (category, description, target_value) tuple of lines 86-89
GoalTuple(g) ==
    [category |-> g.category, description |-> g.description,
     target_value |-> g.target_value]

\* goal_lookup.get(category, (category, 1.0)) on the dict of lines 127-130:
\* a later tuple of the same category replaces an earlier one
RECURSIVE goal_lookup_get(_, _)
goal_lookup_get(goals_with_descriptions, category) ==
    IF goals_with_descriptions = <<>>
    THEN [description |-> category, target_value |-> 1]
    ELSE LET last == goals_with_descriptions[Len(goals_with_descriptions)]
         IN  IF last.category = category
             THEN [description |-> last.description,
                   target_value |-> last.target_value]
             ELSE goal_lookup_get(SubSeq(goals_with_descriptions, 1,
                                         Len(goals_with_descriptions) - 1),
                                  category)

\* the arguments of the enhance_score call of lines 133-144 for one goal score
enhance_call(goal_score, goals_with_descriptions) ==
    LET found == goal_lookup_get(goals_with_descriptions, goal_score.category)
    IN  [category |-> goal_score.category,
         base_score |-> goal_score.base_score,
         goal_description |-> found.description,
         target_value |-> found.target_value]

\* score_day lines 84-94 on the active goals of a user: score_entry returned
\* one goal score per goal, in goal order
InitLookup ==
    /\ InitOther
    /\ scorer = NoScorer
    /\ ret = <<>>
    /\ \E n \in 1..MaxLookupGoals :
          \E cs \in [1..n -> LookupCategories],
             ds \in [1..n -> LookupDescriptions],
             ts \in [1..n -> LookupTargets] :
             LET gs == [k \in 1..n |->
                          [category |-> cs[k], description |-> ds[k],
                           target_value |-> ts[k], weight |-> k,
                           is_active |-> TRUE]]
             IN  call = [fn |-> "enhance_scoring_result",
                         goals |-> gs,
                         goal_scores |-> [k \in 1..n |->
                             [category |-> gs[k].category,
                              base_score |-> 50 + 10 * k]],
                         goals_with_descriptions |->
                             [k \in 1..n |-> GoalTuple(gs[k])]]

\* one iteration of the loop of lines 132-146; ret collects the calls made
EnhanceNextGoal ==
    /\ call.fn = "enhance_scoring_result"
    /\ Len(ret) < Len(call.goal_scores)
    /\ ret' = Append(ret, enhance_call(call.goal_scores[Len(ret) + 1],
                                       call.goals_with_descriptions))
    /\ UNCHANGED <<analysis_runs, tasks, scorer, call, walk, settings, journals, goals, daily_scores,
                   score_metrics, runs, started, edits>>

NextLookup == EnhanceNextGoal

SpecLookup == InitLookup /\ [][NextLookup]_vars

-----------------------------------------------------------------------------
(* _calculate_comparison alone.                                            *)

\* scores in hundredths: whole scores and the values just above and below
Hundredths == {k \in 0..(MaxScore * 100) : k % 100 \in {0, 1, 99}}
WholeScores == {k * 100 : k \in MinScore..MaxScore}

InitCompare ==
    /\ InitOther
    /\ scorer = NoScorer
    /\ ret = None
    /\ \E t \in Hundredths :
          \/ call = [fn |-> "_calculate_comparison", today |-> Rat(t, 100),
                     yesterday |-> None]
          \/ \E y \in WholeScores :
                call = [fn |-> "_calculate_comparison", today |-> Rat(t, 100),
                        yesterday |-> Some(Rat(y, 100))]

Compare ==
    /\ call.fn = "_calculate_comparison"
    /\ ret = None
    /\ ret' = Some(calculate_comparison(call.today, call.yesterday))
    /\ UNCHANGED <<analysis_runs, tasks, scorer, call, walk, settings, journals, goals, daily_scores,
                   score_metrics, runs, started, edits>>

NextCompare == Compare

SpecCompare == InitCompare /\ [][NextCompare]_vars

-----------------------------------------------------------------------------
(* _calculate_goal_streak alone, one loop iteration per step.              *)

MaxHist == 5
StreakScores == {40, 47, 50, 55, 60, 90}

\* the metrics a DailyScore row may carry: none, one of another category, or
\* one of the category asked for
DayMetrics ==
    {<<>>, <<[id |-> 1, category |-> "health", score |-> 50]>>}
    \cup {<<[id |-> 1, category |-> "fitness", score |-> s]>> : s \in StreakScores}

\* the rows as the query returns them: newest first
InitStreak ==
    /\ settings = "key"
    /\ journals = {}
    /\ goals = [u \in Users |-> <<>>]
    /\ daily_scores = {}
    /\ score_metrics = {}
    /\ runs = [r \in Runs |-> IdleRun]
    /\ started = 0
    /\ edits = 0
    /\ analysis_runs = {}
    /\ tasks = NoTasks
    /\ scorer = NoScorer
    /\ ret = None
    /\ \E n \in 0..MaxHist : \E ms \in [1..n -> DayMetrics] :
          LET rows == [k \in 1..n |-> [id |-> n + 1 - k, score_date |-> n + 1 - k,
                                       metrics |-> ms[n + 1 - k]]]
          IN  /\ call = [fn |-> "_calculate_goal_streak",
                         category |-> "fitness", daily_scores |-> rows]
              /\ walk = StreakStart("fitness", rows)

StreakStep ==
    /\ call.fn = "_calculate_goal_streak"
    /\ walk.i <= Len(walk.sorted_scores)
    /\ walk' = StreakBody(walk)
    /\ UNCHANGED <<analysis_runs, tasks, scorer, call, ret, settings, journals, goals, daily_scores,
                   score_metrics, runs, started, edits>>

StreakReturn ==
    /\ call.fn = "_calculate_goal_streak"
    /\ walk.i > Len(walk.sorted_scores)
    /\ ret = None
    /\ ret' = Some(StreakResult(walk))
    /\ UNCHANGED <<analysis_runs, tasks, scorer, call, walk, settings, journals, goals, daily_scores,
                   score_metrics, runs, started, edits>>

NextStreak == StreakStep \/ StreakReturn

SpecStreak == InitStreak /\ [][NextStreak]_vars

-----------------------------------------------------------------------------
(* Streaks over a stored history of one user: every calendar day has no    *)
(* DailyScore row, a row without the category metric, or a row with it.    *)

FarDays == 30
CalendarScores == {40, 50, 60}
DayChoices ==
    {[row |-> FALSE, metric |-> None], [row |-> TRUE, metric |-> None]}
    \cup {[row |-> TRUE, metric |-> Some(sc)] : sc \in CalendarScores}

\* the DailyScore rows of a calendar (the columns the history query reads)
CalendarRows(days) ==
    {[id |-> d, user_id |-> "u1", score_date |-> d] :
        d \in {e \in 1..MaxDays : days[e].row}}

\* their ScoreMetric rows
CalendarMetrics(days) ==
    {[id |-> d, daily_score_id |-> d, category |-> "fitness",
      score |-> days[d].metric[1], weight |-> 1] :
        d \in {e \in 1..MaxDays : days[e].metric # None}}

\* the call is made on the last day of the calendar or FarDays later
InitCalendar ==
    /\ settings = "key"
    /\ journals = {}
    /\ goals = [u \in Users |-> IF u = "u1" THEN <<Goal("fitness", 1, TRUE)>>
                                ELSE <<>>]
    /\ runs = [r \in Runs |-> IdleRun]
    /\ started = 0
    /\ edits = 0
    /\ analysis_runs = {}
    /\ tasks = NoTasks
    /\ scorer = NoScorer
    /\ ret = None
    /\ \E days \in [1..MaxDays -> DayChoices] :
          /\ daily_scores = CalendarRows(days)
          /\ score_metrics = CalendarMetrics(days)
          /\ \E today \in {MaxDays, MaxDays + FarDays} :
                \/ /\ call = [fn |-> "get_streaks", user_id |-> "u1",
                              today |-> today]
                   /\ walk = StreakStart("fitness", <<>>)
                \/ LET rows == LoadHistory([scores |-> CalendarRows(days),
                                            metrics |-> CalendarMetrics(days)],
                                           "u1")
                   IN  /\ call = [fn |-> "_calculate_goal_streak",
                                  category |-> "fitness",
                                  daily_scores |-> rows, today |-> today]
                       /\ walk = StreakStart("fitness", rows)

\* get_streaks(user_id) (152-179) on the stored tables
GetStreaks ==
    /\ call.fn = "get_streaks"
    /\ ret = None
    /\ ret' = Some(get_streaks(Tables, call.user_id))
    /\ UNCHANGED <<analysis_runs, tasks, scorer, call, walk, settings, journals, goals, daily_scores,
                   score_metrics, runs, started, edits>>

NextCalendar == StreakStep \/ StreakReturn \/ GetStreaks

SpecCalendar == InitCalendar /\ [][NextCalendar]_vars

-----------------------------------------------------------------------------
(* Requests that may overlap: each worker serves its request on a session  *)
(* of its own.                                                             *)

\* the requests of one user for one date
NextConcurrent ==
    \/ \E r \in Runs : Start(r, "u1", 1)
    \/ \E r \in Runs : Step(r)

SpecConcurrent == Init /\ [][NextConcurrent]_vars

-----------------------------------------------------------------------------
(* Requests served after the race left two DailyScore rows for one day.    *)

\* the rows and metrics two racing score_day("u1", 1) calls committed
DuplicateRows ==
    {[id |-> i, user_id |-> "u1", score_date |-> 1,
      composite_score |-> RatInt(60), verdict |-> "first_day",
      comparison_data |-> [yesterday |-> None, delta |-> None]] : i \in {1, 4}}

DuplicateMetrics ==
    {[id |-> 2, daily_score_id |-> 1, category |-> "fitness", score |-> 60, weight |-> 1],
     [id |-> 3, daily_score_id |-> 1, category |-> "health", score |-> 60, weight |-> 1],
     [id |-> 5, daily_score_id |-> 4, category |-> "fitness", score |-> 60, weight |-> 1],
     [id |-> 6, daily_score_id |-> 4, category |-> "health", score |-> 60, weight |-> 1]}

InitDuplicates ==
    /\ call = NoCall
    /\ ret = None
    /\ walk = StreakStart("fitness", <<>>)
    /\ settings = "key"
    /\ journals = {<<u, d>> \in Users \X Dates : u = "u1" \/ d = 1}
    /\ goals = [u \in Users |->
                  IF u = "u1"
                  THEN <<Goal("fitness", 1, TRUE), Goal("learning", 2, FALSE),
                         Goal("health", 1, TRUE)>>
                  ELSE <<Goal("learning", 1, TRUE)>>]
    /\ daily_scores = DuplicateRows
    /\ score_metrics = DuplicateMetrics
    /\ runs = [r \in Runs |-> IdleRun]
    /\ started = 0
    /\ edits = 0
    /\ analysis_runs = {}
    /\ tasks = NoTasks
    /\ scorer = NoScorer

\* later requests, served one after the other
NextDuplicates ==
    \/ \E u \in Users, d \in Dates : StartAlone(u, d)
    \/ \E r \in Runs : Step(r)

SpecDuplicates == InitDuplicates /\ [][NextDuplicates]_vars

-----------------------------------------------------------------------------
(* The deterministic scorer alone: score_goal on every input.              *)

\* the longest journal content, in phrases
MaxWords == 3
\* the phrases journal contents are made of
Phrases ==
    {<<"G", "y", "m">>,
     <<"r", "u", "n", "n", "i", "n", "g">>,
     <<"r", "e", "a", "d">>,
     <<"h", "a", "r", "d">>,
     <<"e", "a", "s", "y">>,
     <<"d", "i", "d">>,
     <<"2", " ", "h", "o", "u", "r", "s">>,
     <<"g", "u", "i", "t", "a", "r">>,
     <<".">>}

Space == <<" ">>

RECURSIVE Join(_)
Join(ps) ==
    IF ps = <<>> THEN <<>>
    ELSE IF Len(ps) = 1 THEN ps[1]
    ELSE ps[1] \o Space \o Join(Tail(ps))

Contents == {Join(ps) : ps \in UNION {[1..n -> Phrases] : n \in 0..MaxWords}}

\* two table categories (one not in lower case) and one that is in no table
GoalCategories == {<<"f", "i", "t", "n", "e", "s", "s">>, <<"L", "e", "a", "r", "n", "i", "n", "g">>, <<"g", "u", "i", "t", "a", "r">>}
GoalDescriptions == {<<>>, <<"p", "l", "a", "y", " ", "g", "u", "i", "t", "a", "r">>}

GoalScoreInput(c, d, j) ==
    [goal_category |-> c, goal_description |-> d, journal_content |-> j]

InitScorer ==
    /\ InitOther
    /\ scorer = DeterministicScorer
    /\ ret = <<>>
    /\ \E c \in GoalCategories, d \in GoalDescriptions, j \in Contents :
          call = [fn |-> "score_goal", input |-> GoalScoreInput(c, d, j)]

\* scorer.score_goal(input)
ScoreGoal ==
    /\ call.fn = "score_goal"
    /\ ret = <<>>
    /\ ret' = <<score_goal(scorer, call.input)>>
    /\ scorer' = scorer_after(scorer, call.input)
    /\ UNCHANGED <<analysis_runs, tasks, call, walk, settings, journals, goals, daily_scores,
                   score_metrics, runs, started, edits>>

NextScorer == ScoreGoal

SpecScorer == InitScorer /\ [][NextScorer]_vars

-----------------------------------------------------------------------------
(* score_goal on contents rich in effort signals.                          *)

MaxSignalWords == 3
\* a keyword that is an activity verb, two positive effort words, a negative
\* one, a quantifier whose unit is a keyword, a description word and
\* four sentences with three keywords
SignalPhrases ==
    {<<"s", "t", "u", "d", "i", "e", "d">>,
     <<"p", "u", "s", "h", "e", "d", " ", "h", "a", "r", "d">>,
     <<"e", "a", "s", "y">>,
     <<"2", " ", "p", "a", "g", "e", "s">>,
     <<"g", "u", "i", "t", "a", "r">>,
     <<"s", "t", "u", "d", "i", "e", "d", ".", " ", "r", "e", "a", "d", ".", " ", "r", "e", "a", "d", ".", " ", "r", "e", "a", "d", " ", "b", "o", "o", "k">>}

SignalContents ==
    {Join(ps) : ps \in UNION {[1..n -> SignalPhrases] : n \in 0..MaxSignalWords}}

\* the goal description whose word may stand in for a keyword
SignalDescriptions == {<<"p", "l", "a", "y", " ", "g", "u", "i", "t", "a", "r">>}

SignalCategories == {<<"L", "e", "a", "r", "n", "i", "n", "g">>, <<"f", "i", "t", "n", "e", "s", "s">>}

InitSignals ==
    /\ InitOther
    /\ scorer = DeterministicScorer
    /\ ret = <<>>
    /\ \E c \in SignalCategories, d \in SignalDescriptions, j \in SignalContents :
          call = [fn |-> "score_goal", input |-> GoalScoreInput(c, d, j)]

SpecSignals == InitSignals /\ [][NextScorer]_vars

-----------------------------------------------------------------------------
(* score_goal on an input, then on another input, then on the first input  *)
(* again.                                                                  *)

\* the longest journal content of a repeated call, in phrases
MaxRepeatWords == 2

RepeatContents ==
    {Join(ps) : ps \in UNION {[1..n -> Phrases] : n \in 0..MaxRepeatWords}}

\* the inputs scored between the two calls on the input under study
OtherInputs ==
    {GoalScoreInput(<<"f", "i", "t", "n", "e", "s", "s">>, <<"p", "l", "a", "y", " ", "g", "u", "i", "t", "a", "r">>, <<"G", "y", "m", " ", "h", "a", "r", "d">>),
     GoalScoreInput(<<"g", "u", "i", "t", "a", "r">>, <<>>, <<"g", "u", "i", "t", "a", "r", " ", "d", "i", "d">>)}

InitRepeat ==
    /\ InitOther
    /\ scorer = DeterministicScorer
    /\ ret = <<>>
    /\ \E c \in GoalCategories, d \in GoalDescriptions, j \in RepeatContents,
          o \in OtherInputs :
          call = [fn |-> "score_goal_repeated",
                  input |-> GoalScoreInput(c, d, j), other |-> o]

\* scorer.score_goal(input): the first and the third call
ScoreRepeated ==
    /\ call.fn = "score_goal_repeated"
    /\ Len(ret) \in {0, 2}
    /\ ret' = Append(ret, score_goal(scorer, call.input))
    /\ scorer' = scorer_after(scorer, call.input)
    /\ UNCHANGED <<analysis_runs, tasks, call, walk, settings, journals, goals, daily_scores,
                   score_metrics, runs, started, edits>>

\* scorer.score_goal(other) between them
ScoreOther ==
    /\ call.fn = "score_goal_repeated"
    /\ Len(ret) = 1
    /\ ret' = Append(ret, score_goal(scorer, call.other))
    /\ scorer' = scorer_after(scorer, call.other)
    /\ UNCHANGED <<analysis_runs, tasks, call, walk, settings, journals, goals, daily_scores,
                   score_metrics, runs, started, edits>>

NextRepeat == ScoreRepeated \/ ScoreOther

SpecRepeat == InitRepeat /\ [][NextRepeat]_vars

-----------------------------------------------------------------------------
(* score_entry alone: one journal content against a list of goals.         *)

\* the longest journal content of an entry, in phrases, and the most goals
MaxEntryWords == 1
MaxEntryGoals == 3

EntryContents ==
    {Join(ps) : ps \in UNION {[1..n -> Phrases] : n \in 0..MaxEntryWords}}

\* goal rows as far as score_entry reads them
EntryGoals ==
    {[category |-> c, description |-> <<"p", "l", "a", "y", " ", "g", "u", "i", "t", "a", "r">>, is_active |-> a] :
        c \in {<<"f", "i", "t", "n", "e", "s", "s">>, <<"g", "u", "i", "t", "a", "r">>}, a \in BOOLEAN}

InitEntry ==
    /\ InitOther
    /\ scorer = DeterministicScorer
    /\ ret = None
    /\ \E j \in EntryContents, n \in 0..MaxEntryGoals :
          \E gs \in [1..n -> EntryGoals] :
             call = [fn |-> "score_entry", journal_content |-> j, goals |-> gs]

ScoreEntry ==
    /\ call.fn = "score_entry"
    /\ ret = None
    /\ ret' = Some(score_entry(scorer, call.journal_content, call.goals))
    /\ scorer' = scorer
    /\ UNCHANGED <<analysis_runs, tasks, call, walk, settings, journals, goals, daily_scores,
                   score_metrics, runs, started, edits>>

NextEntry == ScoreEntry

SpecEntry == InitEntry /\ [][NextEntry]_vars

-----------------------------------------------------------------------------
(* The analysis orchestrator: run_analysis calls served by workers, each   *)
(* on a session of its own.                                                *)

Workers == {1, 2}
\* the run_analysis calls one worker serves
MaxAnalyses == 2

IdleTask(n) == [pc |-> "idle", user_id |-> "", analysis_date |-> 0, calls |-> n]

\* select(AnalysisRun).where(user_id, analysis_date) (67-79)
get_analysis_run(user_id, analysis_date) ==
    {x \in analysis_runs : x.user_id = user_id /\ x.analysis_date = analysis_date}

\* the analysis_runs table with the status of one run updated and committed
WithStatus(user_id, analysis_date, status) ==
    {IF x.user_id = user_id /\ x.analysis_date = analysis_date
     THEN [x EXCEPT !.status = status] ELSE x : x \in analysis_runs}

InitAnalysis ==
    /\ walk = StreakStart("fitness", <<>>)
    /\ settings = "key"
    /\ journals = {}
    /\ goals = [u \in Users |-> <<>>]
    /\ daily_scores = {}
    /\ score_metrics = {}
    /\ runs = [r \in Runs |-> IdleRun]
    /\ started = 0
    /\ edits = 0
    /\ scorer = NoScorer
    /\ call = NoCall
    /\ ret = None
    /\ analysis_runs = {}
    /\ tasks = [w \in Workers |-> IdleTask(0)]

\* a task calls run_analysis(user_id, analysis_date) (135-137)
RunAnalysis(w, u, d) ==
    /\ tasks[w].pc = "idle"
    /\ tasks[w].calls < MaxAnalyses
    /\ tasks' = [tasks EXCEPT ![w] = [pc |-> "get_run", user_id |-> u,
                                      analysis_date |-> d, calls |-> @.calls + 1]]
    /\ UNCHANGED analysis_runs
    /\ UNCHANGED <<scorer, call, ret, walk, settings, journals, goals, daily_scores,
                   score_metrics, runs, started, edits>>

\* create_or_get_analysis_run lines 86-88: an existing run is returned
\* whatever its status
GetAnalysisRun(w) ==
    /\ tasks[w].pc = "get_run"
    /\ tasks' = [tasks EXCEPT ![w].pc =
                    IF get_analysis_run(tasks[w].user_id, tasks[w].analysis_date) # {}
                    THEN "mark_running" ELSE "add_run"]
    /\ UNCHANGED analysis_runs
    /\ UNCHANGED <<scorer, call, ret, walk, settings, journals, goals, daily_scores,
                   score_metrics, runs, started, edits>>

\* lines 90-99: the pending run is added and committed; the unique constraint
\* uq_analysis_runs_user_date rejects a second row, and the error leaves
\* run_analysis
AddAnalysisRun(w) ==
    /\ tasks[w].pc = "add_run"
    /\ IF get_analysis_run(tasks[w].user_id, tasks[w].analysis_date) # {}
       THEN /\ tasks' = [tasks EXCEPT ![w] = IdleTask(@.calls)]
            /\ UNCHANGED analysis_runs
       ELSE /\ analysis_runs' = analysis_runs \cup
                   {[user_id |-> tasks[w].user_id,
                     analysis_date |-> tasks[w].analysis_date,
                     status |-> "pending"]}
            /\ tasks' = [tasks EXCEPT ![w].pc = "mark_running"]
    /\ UNCHANGED <<scorer, call, ret, walk, settings, journals, goals, daily_scores,
                   score_metrics, runs, started, edits>>

\* lines 155-158: run.status = "running", committed
MarkRunning(w) ==
    /\ tasks[w].pc = "mark_running"
    /\ analysis_runs' = WithStatus(tasks[w].user_id, tasks[w].analysis_date,
                                   "running")
    /\ tasks' = [tasks EXCEPT ![w].pc = "pipeline"]
    /\ UNCHANGED <<scorer, call, ret, walk, settings, journals, goals, daily_scores,
                   score_metrics, runs, started, edits>>

\* lines 160-193: the pipeline ran; the run is marked completed
CompleteAnalysis(w) ==
    /\ tasks[w].pc = "pipeline"
    /\ analysis_runs' = WithStatus(tasks[w].user_id, tasks[w].analysis_date,
                                   "completed")
    /\ tasks' = [tasks EXCEPT ![w] = IdleTask(@.calls)]
    /\ UNCHANGED <<scorer, call, ret, walk, settings, journals, goals, daily_scores,
                   score_metrics, runs, started, edits>>

\* lines 195-201: the pipeline raised; the run is marked failed
FailAnalysis(w) ==
    /\ tasks[w].pc = "pipeline"
    /\ analysis_runs' = WithStatus(tasks[w].user_id, tasks[w].analysis_date,
                                   "failed")
    /\ tasks' = [tasks EXCEPT ![w] = IdleTask(@.calls)]
    /\ UNCHANGED <<scorer, call, ret, walk, settings, journals, goals, daily_scores,
                   score_metrics, runs, started, edits>>

NextAnalysis ==
    \/ \E w \in Workers, d \in Dates : RunAnalysis(w, "u1", d)
    \/ \E w \in Workers : GetAnalysisRun(w)
    \/ \E w \in Workers : AddAnalysisRun(w)
    \/ \E w \in Workers : MarkRunning(w)
    \/ \E w \in Workers : CompleteAnalysis(w)
    \/ \E w \in Workers : FailAnalysis(w)

SpecAnalysis == InitAnalysis /\ [][NextAnalysis]_vars

-----------------------------------------------------------------------------
(* Properties.                                                             *)

\* C1: for every base score and every adjusted_score in [0, 100] that the
\* collaborator proposes, enhance_score returns an EnhancedScore with
\* |adjusted_score - original_score| <= 20, 0 <= adjusted_score <= 100 and
\* original_score equal to the base score, whatever original_score was echoed.
C1_GuardrailBound ==
    (call.fn = "enhance_score" /\ ret # None
        /\ call.raw.adjusted_score >= 0 /\ call.raw.adjusted_score <= 100) =>
    /\ ret[1].ok
    /\ AbsInt(ret[1].value.adjusted_score - ret[1].value.original_score) <= 20
    /\ ret[1].value.adjusted_score >= 0
    /\ ret[1].value.adjusted_score <= 100
    /\ ret[1].value.original_score = call.base_score

\* a proposal 35 above the base, with a wrong original_score echoed, was
\* answered
C1_Witness ==
    /\ call.fn = "enhance_score"
    /\ call.base_score = 50
    /\ call.raw.adjusted_score = 85
    /\ call.raw.original_score = 0
    /\ ret # None
    /\ ret[1].ok
    /\ ret[1].value.adjusted_score = 70

\* a score in hundredths
InHundredths(x) == x.n * (100 \div x.d)

\* C3: without a yesterday the verdict is first_day and yesterday and delta
\* are null; otherwise delta = today - yesterday and the verdict is same iff
\* |delta| <= 5, better iff delta > 5, worse iff delta < -5.
C3_Verdict ==
    (call.fn = "_calculate_comparison" /\ ret # None) =>
    IF call.yesterday = None
    THEN /\ ret[1].verdict = "first_day"
         /\ ret[1].yesterday = None
         /\ ret[1].delta = None
    ELSE LET delta == InHundredths(call.today) - InHundredths(call.yesterday[1])
         IN  /\ ret[1].delta = Some(Rat(delta, 100))
             /\ ret[1].yesterday = call.yesterday
             /\ ret[1].verdict \in {"same", "better", "worse"}
             /\ (ret[1].verdict = "same") <=> (delta >= 0 - 500 /\ delta <= 500)
             /\ (ret[1].verdict = "better") <=> (delta > 500)
             /\ (ret[1].verdict = "worse") <=> (delta < 0 - 500)

\* a delta of exactly +5.0 was judged
C3_Witness ==
    /\ call.fn = "_calculate_comparison"
    /\ ret # None
    /\ call.yesterday # None
    /\ InHundredths(call.today) - InHundredths(call.yesterday[1]) = 500
    /\ ret[1].verdict = "same"

\* the row of calendar day j in the history handed to _calculate_goal_streak
DayRow(j) ==
    CHOOSE row \in {call.daily_scores[k] : k \in 1..Len(call.daily_scores)} :
        row.score_date = j

\* the score of the category on day j, None when the row carries no such metric
DayScore(j) ==
    LET ms == {DayRow(j).metrics[k] : k \in 1..Len(DayRow(j).metrics)}
        own == {m \in ms : m.category = call.category}
    IN  IF own = {} THEN None ELSE Some((CHOOSE m \in own : TRUE).score)

\* C4: a day whose DailyScore has no metric of the category resets the
\* running streak to 0 and forgets the previous score, so the next day with
\* the metric starts a streak of 1 whatever its score; metrics 50, 55, 60 on
\* days 1-3, none on day 4 and 90 on day 5 give current_streak 1 and
\* longest_streak 3.
C4_GapResets ==
    (call.fn = "_calculate_goal_streak") =>
    /\ \A j \in 1..Len(call.daily_scores) :
          (walk.i = j + 1) =>
             /\ (DayScore(j) = None) =>
                    (walk.temp_streak = 0 /\ walk.prev_score = None)
             /\ (j > 1 /\ DayScore(j) # None /\ DayScore(j - 1) = None) =>
                    (walk.temp_streak = 1)
    /\ (/\ ret # None
        /\ Len(call.daily_scores) = 5
        /\ DayScore(1) = Some(50) /\ DayScore(2) = Some(55)
        /\ DayScore(3) = Some(60) /\ DayScore(4) = None
        /\ DayScore(5) = Some(90)) =>
          (ret[1].current_streak = 1 /\ ret[1].longest_streak = 3)

\* the history 50, 55, 60, gap, 90 was walked to its end
C4_Witness ==
    /\ call.fn = "_calculate_goal_streak"
    /\ ret # None
    /\ Len(call.daily_scores) = 5
    /\ DayScore(1) = Some(50) /\ DayScore(2) = Some(55)
    /\ DayScore(3) = Some(60) /\ DayScore(4) = None
    /\ DayScore(5) = Some(90)
    /\ ret[1].current_streak = 1
    /\ ret[1].longest_streak = 3

\* C5: for two consecutive history days that carry the metric with scores p
\* then c, c >= p - 5 raises the running streak by 1 and sets
\* last_improvement_date to that day; c < p - 5 sets the running streak to 1
\* and leaves last_improvement_date alone.
C5_Tolerance ==
    [][(/\ call.fn = "_calculate_goal_streak"
        /\ walk.i >= 2
        /\ walk'.i = walk.i + 1
        /\ DayScore(walk.i - 1) # None
        /\ DayScore(walk.i) # None) =>
         IF DayScore(walk.i)[1] >= DayScore(walk.i - 1)[1] - 5
         THEN /\ walk'.temp_streak = walk.temp_streak + 1
              /\ walk'.last_improvement_date = Some(walk.i)
         ELSE /\ walk'.temp_streak = 1
              /\ walk'.last_improvement_date = walk.last_improvement_date]_vars

\* 55 then 50 (a decline of exactly 5) continued the streak, 40 after it
\* (a decline of 10) reset it to 1
C5_Witness ==
    /\ call.fn = "_calculate_goal_streak"
    /\ Len(call.daily_scores) = 3
    /\ DayScore(1) = Some(55) /\ DayScore(2) = Some(50) /\ DayScore(3) = Some(40)
    /\ walk.i = 4
    /\ walk.temp_streak = 1
    /\ walk.longest_streak = 2
    /\ walk.last_improvement_date = Some(2)

\* sum over the goals of a run of enhanced_score x weight, and of weight
RECURSIVE EnhancedTimesWeight(_, _)
EnhancedTimesWeight(run, i) ==
    IF i = 0 THEN 0
    ELSE run.enhanced[i].adjusted_score * run.goals[i].weight
         + EnhancedTimesWeight(run, i - 1)

RECURSIVE TotalWeight(_, _)
TotalWeight(run, i) ==
    IF i = 0 THEN 0 ELSE run.goals[i].weight + TotalWeight(run, i - 1)

\* the goals of a run are non-empty with positive weights and every goal has
\* an enhanced score in [0, 100]
ScorableRun(run) ==
    /\ run.goals # <<>>
    /\ Len(run.enhanced) = Len(run.goals)
    /\ \A i \in 1..Len(run.goals) :
          /\ run.goals[i].weight > 0
          /\ run.enhanced[i].adjusted_score >= 0
          /\ run.enhanced[i].adjusted_score <= 100

\* C2: for every non-empty set of active goals with positive weights and
\* enhanced scores in [0, 100], no step of score_day rejects the input while
\* building the per-goal details, and a completed run returns
\* composite_score = sum(enhanced_score x weight) / sum(weight).
C2_CompositeReturned ==
    \A r \in Runs :
        ScorableRun(runs[r]) =>
        /\ ~(runs[r].pc = "failed" /\ runs[r].failed_at = "score")
        /\ runs[r].pc = "done" =>
              runs[r].composite_score.n * TotalWeight(runs[r], Len(runs[r].goals))
              = runs[r].composite_score.d
                * EnhancedTimesWeight(runs[r], Len(runs[r].goals))

\* C6: a score_day that finds no journal entry for (user, date), or a journal
\* entry but no active goal, ends with a ValueError that the API answers with
\* HTTP 404, and the DailyScore and ScoreMetric rows are those that existed
\* when the call started.
C6_NotFound ==
    [][\A r \in Runs :
        LET run == runs[r]
            missing_journal ==
                /\ run.pc = "get_journal"
                /\ ~get_journal_entry(run.user_id, run.score_date)
            no_goals ==
                /\ run.pc = "get_goals"
                /\ get_journal_entry(run.user_id, run.score_date)
                /\ get_active_goals(run.user_id) = <<>>
        IN  ((missing_journal \/ no_goals)
             /\ runs'[r] # run /\ runs'[r].error # "Cancelled") =>
            /\ runs'[r].pc = "failed"
            /\ runs'[r].error = IF missing_journal THEN "NoJournal"
                                ELSE "NoActiveGoals"
            /\ runs'[r].http = 404
            /\ daily_scores' = run.before.scores
            /\ score_metrics' = run.before.metrics
            /\ daily_scores' = daily_scores
            /\ score_metrics' = score_metrics]_vars

\* a call for a user whose goals were all deactivated after an earlier scored
\* day failed with NoActiveGoals although the journal entry exists
C6_Witness ==
    \E r \in Runs :
        /\ runs[r].pc = "failed"
        /\ runs[r].error = "NoActiveGoals"
        /\ runs[r].http = 404
        /\ get_journal_entry(runs[r].user_id, runs[r].score_date)
        /\ daily_scores # {}
        /\ Tables = runs[r].before

\* a call for a date without a journal entry failed with NoJournal while
\* scores of an earlier day were stored
C6_WitnessNoJournal ==
    \E r \in Runs :
        /\ runs[r].pc = "failed"
        /\ runs[r].error = "NoJournal"
        /\ runs[r].http = 404
        /\ daily_scores # {}
        /\ Tables = runs[r].before

\* the ScoreMetric rows owned by the DailyScore rows of (user, date)
OwnedMetrics(user_id, score_date) ==
    {m \in score_metrics :
        \E s \in ScoresOn(daily_scores, user_id, score_date) :
            m.daily_score_id = s.id}

\* C7: when the score_day calls do not overlap, at most one DailyScore row
\* exists for each (user_id, score_date), however often a day is scored.
C7_OneRowPerDay ==
    \A u \in Users, d \in Dates :
        Cardinality(ScoresOn(daily_scores, u, d)) <= 1

\* a second call for a day that was already scored completed as an update
C7_Witness ==
    \E r \in Runs :
        /\ runs[r].pc = "done"
        /\ runs[r].tx.kind = "update"
        /\ Cardinality(ScoresOn(daily_scores, runs[r].user_id,
                                 runs[r].score_date)) = 1

RowsComplete ==
    \A s \in daily_scores :
        LET ms == MetricsOf(score_metrics, s.id)
            sw == [k \in 1..Len(ms) |->
                      [weighted_score |-> ms[k].score * ms[k].weight,
                       weight |-> ms[k].weight]]
        IN  /\ ms # <<>>
            /\ s.composite_score = CompositeScore(sw)

\* C9: the tables change only in the commit that ends _persist_score; while
\* a call is under way, and after it failed or was abandoned at any point,
\* the DailyScore and ScoreMetric rows are those that existed when the call
\* started, and no DailyScore without its complete metrics is ever visible.
C9_CommitOnly ==
    /\ [](/\ RowsComplete
          /\ \A r \in Runs :
                runs[r].pc \notin {"idle", "done"} => Tables = runs[r].before)
    /\ [][Tables' # Tables =>
            \E r \in Runs : /\ runs[r].pc = "persist_commit"
                            /\ runs'[r].pc = "done"]_vars

\* a call that had flushed the update of an existing day, with the delete of
\* its old metrics, was abandoned before the commit
C9_Witness ==
    \E r \in Runs :
        /\ runs[r].pc = "failed"
        /\ runs[r].failed_at = "persist_commit"
        /\ ScoresOn(daily_scores, runs[r].user_id, runs[r].score_date) # {}
        /\ Tables = runs[r].before

\* two completed calls for one (user, date) that both read the tables
\* before either of them committed
Raced(r, q) ==
    /\ r # q
    /\ runs[r].pc = "done" /\ runs[q].pc = "done"
    /\ runs[r].user_id = runs[q].user_id
    /\ runs[r].score_date = runs[q].score_date
    /\ runs[r].tx.kind = runs[q].tx.kind
    /\ runs[r].tx.deleted = runs[q].tx.deleted
    /\ runs[r].tx.kind = "update" => runs[r].tx.row[1].id = runs[q].tx.row[1].id

\* C10: two overlapping score_day calls for one (user, date) that both read
\* the tables before either commits end with more than one DailyScore for
\* the (user, date) or with ScoreMetric rows that are not those of one run.
C10_RaceOutcome ==
    \A r \in Runs, q \in Runs :
        Raced(r, q) =>
        \/ Cardinality(ScoresOn(daily_scores, runs[r].user_id,
                                 runs[r].score_date)) > 1
        \/ /\ OwnedMetrics(runs[r].user_id, runs[r].score_date) # runs[r].created
           /\ OwnedMetrics(runs[r].user_id, runs[r].score_date) # runs[q].created

\* both calls found no row and each inserted one: two DailyScore rows for
\* the same (user, date)
C10_Witness ==
    \E r \in Runs, q \in Runs :
        /\ Raced(r, q)
        /\ Cardinality(ScoresOn(daily_scores, runs[r].user_id,
                                 runs[r].score_date)) = 2

\* C11: when the collaborator's credentials are not configured, score_day
\* does not fail for that reason and every goal gets the no-op enhancement:
\* adjusted_score = original_score = base_score, adjustment = 0 and
\* confidence = 1.0 (100 hundredths).
C11_NoOpWhenUnconfigured ==
    \A r \in Runs :
        settings # "key" =>
        /\ ~(runs[r].pc = "failed" /\ runs[r].failed_at = "score"
                /\ runs[r].error = "AttributeError")
        /\ \A i \in 1..Len(runs[r].enhanced) :
              /\ runs[r].enhanced[i].adjusted_score
                   = runs[r].enhanced[i].original_score
              /\ runs[r].enhanced[i].adjustment = 0
              /\ runs[r].enhanced[i].confidence = 100
        /\ \A i \in 1..Len(runs[r].goal_details) :
              runs[r].goal_details[i].enhanced_score
                = runs[r].goal_details[i].base_score

\* C17: the streaks a completed score_day returns are those that get_streaks
\* returns for the same user right after it, for every scored category.
C17_StreaksIncludeToday ==
    \A r \in Runs :
        runs[r].pc = "done" =>
        runs[r].streaks = get_streaks(Tables, runs[r].user_id)

\* C18: every EnhancedScore that enhance_score returns has
\* adjustment = adjusted_score - original_score, within [-20, 20], whatever
\* adjustment the collaborator reported.
C18_AdjustmentConsistent ==
    (call.fn \in {"enhance_score", "mock_enhance_score"} /\ ret # None) =>
    (ret[1].ok =>
        /\ ret[1].value.adjustment
             = ret[1].value.adjusted_score - ret[1].value.original_score
        /\ AbsInt(ret[1].value.adjustment) <= 20)

\* C19: every EnhancedScore that passes construction, for any original_score,
\* adjusted_score in [0, 100] and adjustment, has
\* |adjusted_score - original_score| <= 20 before enhance_score clamps it.
C19_SchemaGuardrail ==
    (call.fn = "enhance_score" /\ ret # None /\ EnhancedScoreValid(call.raw)) =>
    AbsInt(EnhancedScore(call.raw).adjusted_score
           - EnhancedScore(call.raw).original_score) <= 20

\* C20: when the weights of the active goals sum to 0, score_day does not
\* fail while building the goal details; it completes with composite_score 0.
C20_ZeroWeightCompletes ==
    \A r \in Runs :
        (runs[r].goals # <<>>
            /\ TotalWeight(runs[r], Len(runs[r].goals)) = 0) =>
        /\ ~(runs[r].pc = "failed" /\ runs[r].failed_at = "score"
                /\ runs[r].error = "ValidationError")
        /\ runs[r].pc = "done" => runs[r].composite_score = RatInt(0)

\* the names of the six table categories
TableCategories ==
    {CATEGORY_KEYWORDS[k].name : k \in 1..Len(CATEGORY_KEYWORDS)}

\* the keywords that count for a category: its table row, or its own name
KeywordsFor(category) ==
    IF lower(category) \in TableCategories
    THEN LET row == CHOOSE k \in 1..Len(CATEGORY_KEYWORDS) :
                        CATEGORY_KEYWORDS[k].name = lower(category)
         IN  {CATEGORY_KEYWORDS[row].keywords[k] :
                 k \in 1..Len(CATEGORY_KEYWORDS[row].keywords)}
    ELSE {lower(category)}

\* the lower-cased content of an input contains one of its category's keywords
MentionsKeyword(input) ==
    \E kw \in KeywordsFor(input.goal_category) :
        Contains(lower(input.journal_content), kw)

\* ... or a word of the goal description that is longer than 3 characters
MentionsDescription(input) ==
    LET words == split(input.goal_description)
    IN  \E k \in 1..Len(words) :
            /\ Len(words[k]) > 3
            /\ Contains(lower(input.journal_content), lower(words[k]))

\* C12: an input whose lower-cased content contains none of the category's
\* keywords and no description word longer than 3 characters is scored with
\* base_score 0, showed_up false, effort_level none and no evidence, whatever
\* effort words, quantifiers or activity verbs it contains.
C12_NoEngagementIsZero ==
    (call.fn = "score_goal" /\ Len(ret) >= 1
        /\ ~MentionsKeyword(call.input) /\ ~MentionsDescription(call.input)) =>
    /\ ret[1].base_score = 0
    /\ ret[1].showed_up = FALSE
    /\ ret[1].effort_level = "none"
    /\ ret[1].evidence = <<>>

\* a content with an effort word, a quantifier and an activity verb, but
\* nothing about fitness, was scored 0 for fitness
C12_Witness ==
    /\ call.fn = "score_goal"
    /\ call.input.goal_category = <<"f", "i", "t", "n", "e", "s", "s">>
    /\ call.input.goal_description = <<"p", "l", "a", "y", " ", "g", "u", "i", "t", "a", "r">>
    /\ call.input.journal_content = <<"h", "a", "r", "d", " ", "2", " ", "h", "o", "u", "r", "s", " ", "d", "i", "d">>
    /\ Len(ret) >= 1
    /\ ret[1].base_score = 0

\* C13: showed_up implies 30 <= base_score <= 100, not showed_up implies
\* base_score = 0, and any keyword match makes showed_up true.
C13_ShowingUpFloor ==
    call.fn = "score_goal" =>
    /\ \A k \in 1..Len(ret) :
          IF ret[k].showed_up
          THEN ret[k].base_score >= 30 /\ ret[k].base_score <= 100
          ELSE ret[k].base_score = 0
    /\ (Len(ret) >= 1 /\ MentionsKeyword(call.input)) =>
          ret[1].showed_up /\ ret[1].base_score >= 30

\* the single word Gym was scored 38 for fitness: 30 for showing up, 5 for
\* the keyword and 3 for the sentence
C13_Witness ==
    /\ call.fn = "score_goal"
    /\ call.input.goal_category = <<"f", "i", "t", "n", "e", "s", "s">>
    /\ call.input.journal_content = <<"G", "y", "m">>
    /\ Len(ret) >= 1
    /\ ret[1].showed_up
    /\ ret[1].base_score = 38

NoTableKeywords ==
    [DeterministicScorer EXCEPT !.CATEGORY_KEYWORDS =
        [k \in 1..Len(CATEGORY_KEYWORDS) |->
            [name |-> CATEGORY_KEYWORDS[k].name, keywords |-> <<>>]]]

\* C15: score_entry scores exactly the active goals, in input order;
\* goals_total counts them, goals_addressed counts those that showed up, and
\* overall_engagement is 0 without an active goal and otherwise
\* min(100, sum of base_score x (1 if showed_up else 0.5) / goals_total).
C15_ActiveGoalsOnly ==
    (call.fn = "score_entry" /\ ret # None) =>
    LET OnlyActive(g) == g.is_active = TRUE
        expected == SelectSeq(call.goals, OnlyActive)
        result == ret[1]
        halves == TotalWeightedHalves(result.goal_scores)
    IN  /\ Len(result.goal_scores) = Len(expected)
        /\ \A k \in 1..Len(expected) :
              result.goal_scores[k] =
                  score_goal(DeterministicScorer,
                             GoalScoreInput(expected[k].category,
                                            expected[k].description,
                                            call.journal_content))
        /\ result.goals_total = Len(expected)
        /\ result.goals_addressed =
              Cardinality({k \in 1..Len(result.goal_scores) :
                              result.goal_scores[k].showed_up})
        /\ IF expected = <<>>
           THEN result.overall_engagement = RatInt(0)
           ELSE IF halves >= 200 * Len(expected)
           THEN result.overall_engagement = RatInt(100)
           ELSE result.overall_engagement.n * 2 * Len(expected)
                  = result.overall_engagement.d * halves

\* an inactive goal between two active ones: two goals scored, one of them
\* addressed
C15_Witness ==
    /\ call.fn = "score_entry"
    /\ ret # None
    /\ Len(call.goals) = 3
    /\ call.goals[1].is_active /\ ~call.goals[2].is_active
    /\ call.goals[3].is_active
    /\ call.goals[1].category # call.goals[3].category
    /\ ret[1].goals_total = 2
    /\ ret[1].goals_addressed = 1
    /\ ret[1].overall_engagement.n > 0

\* C16: for a category that is none of the six table categories score_goal
\* uses the lower-cased category name as the only keyword: a content that
\* contains the name shows up with base_score > 0, and the result is the
\* same with the keywords of the six table categories taken away.
C16_UnknownCategoryFallback ==
    (call.fn = "score_goal" /\ Len(ret) >= 1
        /\ lower(call.input.goal_category) \notin TableCategories) =>
    /\ Contains(call.input.journal_content, call.input.goal_category) =>
          ret[1].showed_up /\ ret[1].base_score > 0
    /\ ret[1] = score_goal(NoTableKeywords, call.input)

\* a content with the category name guitar next to a keyword of the learning
\* table was scored for guitar with guitar as the only keyword
C16_Witness ==
    /\ call.fn = "score_goal"
    /\ call.input.goal_category = <<"g", "u", "i", "t", "a", "r">>
    /\ call.input.goal_description = <<>>
    /\ call.input.journal_content = <<"r", "e", "a", "d", " ", "g", "u", "i", "t", "a", "r">>
    /\ Len(ret) >= 1
    /\ ret[1].showed_up
    /\ ret[1].reasoning[3] = <<<<"g", "u", "i", "t", "a", "r">>>>

-----------------------------------------------------------------------------
(* Streaks over the calendar.                                              *)

\* the dates that have a DailyScore row of u1
RowDates == {s.score_date : s \in {x \in daily_scores : x.user_id = "u1"}}

\* the fitness score stored for date d, None without a row or without metric
StoredScore(d) ==
    LET own == {m \in score_metrics :
                   /\ m.category = "fitness"
                   /\ \E x \in daily_scores :
                         x.user_id = "u1" /\ x.score_date = d /\ x.id = m.daily_score_id}
    IN  IF own = {} THEN None ELSE Some((CHOOSE m \in own : TRUE).score)

ScoredDates == {d \in RowDates : StoredScore(d) # None}
LastRowDate == CHOOSE d \in RowDates : \A e \in RowDates : e <= d

\* the row date before d in the stored history
PrevRowDate(d) ==
    CHOOSE p \in RowDates : p < d /\ \A e \in RowDates : e < d => e <= p

\* the stored day d continued a streak: it and the row before it carry the
\* metric, and its score is not more than SAME_THRESHOLD below
ContinuedOn(d) ==
    /\ d \in ScoredDates
    /\ \E p \in RowDates : p < d
    /\ PrevRowDate(d) \in ScoredDates
    /\ StoredScore(d)[1] >= StoredScore(PrevRowDate(d))[1] - SAME_THRESHOLD

\* the number of stored rows, ending with the last one, that all carry the
\* metric and each continue the one before
RunAtEnd ==
    IF RowDates = {} \/ LastRowDate \notin ScoredDates THEN 0
    ELSE LET starts == {d \in ScoredDates :
                           \A e \in RowDates : e > d => ContinuedOn(e)}
             first == CHOOSE d \in starts : \A e \in starts : d <= e
         IN  Cardinality({e \in RowDates : e >= first})

\* the StreakInfo of fitness the call returned
Returned == IF call.fn = "get_streaks" THEN ret[1][1] ELSE ret[1]

\* C22: when the category has metrics on days d and d+2 and no DailyScore
\* row exists for d+1, the streak restarts on d+2: if d+2 is the last stored
\* day, current_streak is 1.
C22_MissingDayResets ==
    (ret # None) =>
    \A d \in 1..(MaxDays - 2) :
        (/\ d \in ScoredDates
         /\ (d + 1) \notin RowDates
         /\ (d + 2) \in ScoredDates
         /\ LastRowDate = d + 2) => (Returned.current_streak = 1)

\* C23: current_streak is the running streak after the last stored row
\* whatever the date of the call: it is nonzero whenever the last row carries
\* the metric, also when the call comes FarDays after the calendar.
C23_NoExpiry ==
    (ret # None) =>
    /\ Returned.current_streak = RunAtEnd
    /\ (RowDates # {} /\ LastRowDate \in ScoredDates) =>
          Returned.current_streak >= 1

\* get_streaks, called FarDays after a history that ended two days before
\* the end of the calendar, reported a streak of 2 or more
C23_Witness ==
    /\ call.fn = "get_streaks"
    /\ call.today = MaxDays + FarDays
    /\ ret # None
    /\ RowDates # {}
    /\ LastRowDate = MaxDays - 2
    /\ ret[1][1].current_streak >= 2

\* C27: 0 <= current_streak <= longest_streak <= the number of rows with the
\* metric; current_streak = 0 exactly when there is no row or the latest row
\* has no metric; longest_streak = 0 exactly when no row carries the metric.
C27_StreakBounds ==
    (ret # None) =>
    /\ 0 <= Returned.current_streak
    /\ Returned.current_streak <= Returned.longest_streak
    /\ Returned.longest_streak <= Cardinality(ScoredDates)
    /\ (Returned.current_streak = 0) <=>
          (RowDates = {} \/ LastRowDate \notin ScoredDates)
    /\ (Returned.longest_streak = 0) <=> (ScoredDates = {})

\* a history whose longest streak is over and whose latest row has no metric
C27_Witness ==
    /\ call.fn = "_calculate_goal_streak"
    /\ ret # None
    /\ ret[1].current_streak = 0
    /\ ret[1].longest_streak >= 2
    /\ ret[1].longest_streak < Cardinality(ScoredDates)

\* C28: last_improvement_date is non-null exactly when longest_streak >= 2;
\* it is the date of the latest stored day that continued a streak, whatever
\* came after it.
C28_LastImprovement ==
    (ret # None) =>
    LET cont == {d \in RowDates : ContinuedOn(d)}
    IN  /\ (Returned.last_improvement_date # None) <=>
              (Returned.longest_streak >= 2)
        /\ Returned.last_improvement_date =
              IF cont = {} THEN None
              ELSE Some(CHOOSE d \in cont : \A e \in cont : e <= d)

\* last_improvement_date lies before the start of the current streak
C28_Witness ==
    /\ call.fn = "_calculate_goal_streak"
    /\ ret # None
    /\ ret[1].current_streak = 1
    /\ ret[1].last_improvement_date # None
    /\ ret[1].last_improvement_date[1] < LastRowDate
    /\ PrevRowDate(LastRowDate) \in ScoredDates

-----------------------------------------------------------------------------
(* The effort tier and the base score from the signals of the content.     *)

TableWords(table) == {table[k] : k \in 1..Len(table)}

\* s of an input: 2 x positive effort words present - negative effort words
\* present + 2 for a quantifier + the activity verb occurrences, at most 3
EffortSignal(input) ==
    LET c == lower(input.journal_content)
        verbs == activity_count(DeterministicScorer, c)
    IN  2 * Cardinality({w \in TableWords(EFFORT_POSITIVE) : Contains(c, w)})
        - Cardinality({w \in TableWords(EFFORT_NEGATIVE) : Contains(c, w)})
        + (IF number_pattern_search(c) THEN 2 ELSE 0)
        + (IF verbs > 3 THEN 3 ELSE verbs)

\* C24: the effort level is none whenever no category keyword matched,
\* whatever the effort signals and also when a description word makes
\* showed_up true; otherwise it is exceptional iff s >= 6, substantial iff
\* 4 <= s < 6, moderate iff 2 <= s < 4, minimal iff s = 1, none iff s <= 0.
C24_EffortTiers ==
    (call.fn = "score_goal" /\ Len(ret) >= 1) =>
    LET sig == EffortSignal(call.input)
        level == ret[1].effort_level
    IN  IF ~MentionsKeyword(call.input) THEN level = "none"
        ELSE /\ (level = "exceptional") <=> (sig >= 6)
             /\ (level = "substantial") <=> (4 <= sig /\ sig < 6)
             /\ (level = "moderate") <=> (2 <= sig /\ sig < 4)
             /\ (level = "minimal") <=> (sig = 1)
             /\ (level = "none") <=> (sig <= 0)

\* showed_up through a description word, no keyword, effort signals of the
\* exceptional tier, effort level none
C24_Witness ==
    /\ call.fn = "score_goal"
    /\ Len(ret) >= 1
    /\ ~MentionsKeyword(call.input)
    /\ EffortSignal(call.input) >= 6
    /\ ret[1].showed_up
    /\ ret[1].effort_level = "none"

\* every tier was returned for an input with a matched keyword
C24_WitnessExceptional ==
    /\ call.fn = "score_goal"
    /\ Len(ret) >= 1
    /\ MentionsKeyword(call.input)
    /\ ret[1].effort_level = "exceptional"

EffortTiers == <<"none", "minimal", "moderate", "substantial", "exceptional">>
TierRank(level) == CHOOSE k \in 1..Len(EffortTiers) : EffortTiers[k] = level
TierPoints == <<0, 5, 15, 25, 30>>

\* the matched keywords of an input
MatchedKeywords(input) ==
    {kw \in KeywordsFor(input.goal_category) :
        Contains(lower(input.journal_content), kw)}

\* the number of non-empty sentences of the content that contain a matched
\* keyword
MatchingSentences(input) ==
    LET pieces == PiecesFrom(input.journal_content, 1, <<>>)
    IN  Cardinality({k \in 1..Len(pieces) :
            /\ Strip(pieces[k]) # <<>>
            /\ \E kw \in MatchedKeywords(input) :
                  Contains(lower(pieces[k]), kw)})

\* the ranges the monotonicity is checked over
MaxKeywordCount == 5
MaxEvidenceCount == 4

\* C25: for a showed_up input base_score = 30 + min(5 x keywords, 20) +
\* effort points + 10 for a quantifier + min(3 x matching sentences, 10),
\* the sentences counted before the evidence is cut to 3; the value does not
\* decrease when a signal grows, grows by at least 10 with a quantifier, and
\* is at most 100 before the clamp.
C25_BaseScore ==
    (call.fn = "score_goal" /\ Len(ret) >= 1 /\ ret[1].showed_up) =>
    LET kc == Cardinality(MatchedKeywords(call.input))
        rank == TierRank(ret[1].effort_level)
        quant == number_pattern_search(lower(call.input.journal_content))
        ec == MatchingSentences(call.input)
        sum == 30 + (IF 5 * kc < 20 THEN 5 * kc ELSE 20) + TierPoints[rank]
               + (IF quant THEN 10 ELSE 0)
               + (IF 3 * ec < 10 THEN 3 * ec ELSE 10)
    IN  /\ ret[1].base_score = sum
        /\ sum <= 100
        /\ Len(ret[1].evidence) = (IF ec < 3 THEN ec ELSE 3)
        /\ \A k2 \in kc..MaxKeywordCount, r2 \in rank..Len(EffortTiers),
              e2 \in ec..MaxEvidenceCount, q2 \in {quant, TRUE} :
              /\ calculate_base_score(TRUE, k2, EffortTiers[r2], q2, e2) >= sum
              /\ calculate_base_score(TRUE, k2, EffortTiers[r2], q2, e2) <= 100
        /\ ~quant =>
              calculate_base_score(TRUE, kc, ret[1].effort_level, TRUE, ec)
                  >= sum + 10

\* four matching sentences counted, three returned, and the score is 100
C25_Witness ==
    /\ call.fn = "score_goal"
    /\ Len(ret) >= 1
    /\ ret[1].showed_up
    /\ MatchingSentences(call.input) = 4
    /\ Len(ret[1].evidence) = 3
    /\ ret[1].base_score = 100

-----------------------------------------------------------------------------
(* The enhancement calls of score_day.                                     *)

\* C21: the enhancement calls are made one per scored goal in goal order,
\* and the call for a goal receives that goal's own base score, description
\* and target_value, also when two active goals share a category.
C21_OwnDescription ==
    (call.fn = "enhance_scoring_result") =>
    /\ Len(ret) <= Len(call.goals)
    /\ \A i \in 1..Len(ret) :
          /\ ret[i].category = call.goals[i].category
          /\ ret[i].base_score = call.goal_scores[i].base_score
          /\ ret[i].goal_description = call.goals[i].description
          /\ ret[i].target_value = call.goals[i].target_value

-----------------------------------------------------------------------------
(* The run tracking of the analysis orchestrator.                          *)

\* the worker is between marking its run running and marking it completed
\* or failed
InPipeline(w) == tasks[w].pc = "pipeline"

OneInFlight ==
    \A w1, w2 \in Workers :
        (/\ w1 # w2
         /\ InPipeline(w1) /\ InPipeline(w2)
         /\ tasks[w1].user_id = tasks[w2].user_id)
        => tasks[w1].analysis_date # tasks[w2].analysis_date

NoRestart ==
    \A w \in Workers :
        (tasks[w].pc = "mark_running" /\ tasks'[w].pc = "pipeline") =>
        \A x \in get_analysis_run(tasks[w].user_id, tasks[w].analysis_date) :
            x.status \notin {"running", "completed"}

\* C26: at most one run_analysis execution per (user, analysis_date) is in
\* flight between marking the run running and marking it completed or
\* failed, and a call that finds the run running or completed neither starts
\* the pipeline nor sets the status again.
C26_Serialized == []OneInFlight /\ [][NoRestart]_vars

-----------------------------------------------------------------------------
(* The stored comparison against the day before.                           *)

\* C29: every stored DailyScore is consistent with the day before it: a
\* non-null comparison_data.yesterday is the composite_score now stored for
\* (user, date - 1), with the verdict and delta of the comparison against it,
\* and a first_day verdict means no DailyScore is stored for (user, date - 1).
C29_YesterdayConsistent ==
    \A x \in daily_scores :
        LET before == ScoresOn(daily_scores, x.user_id, x.score_date - 1)
        IN  /\ (x.comparison_data.yesterday # None) =>
                  \E y \in before :
                     /\ x.comparison_data.yesterday = Some(y.composite_score)
                     /\ x.verdict =
                           calculate_comparison(x.composite_score,
                               Some(y.composite_score)).verdict
                     /\ x.comparison_data.delta =
                           calculate_comparison(x.composite_score,
                               Some(y.composite_score)).delta
            /\ (x.verdict = "first_day") => (before = {})

-----------------------------------------------------------------------------
(* After the race: two rows for one (user, date).                          *)

\* the request is a score_day of u1 for the duplicated date or the next one
AfterDuplicates(r) ==
    /\ runs[r].pc # "idle"
    /\ runs[r].user_id = "u1"
    /\ runs[r].score_date \in {1, 2}

\* the outcome of the race is what racing requests can leave behind
DuplicatesReached ==
    /\ daily_scores = DuplicateRows
    /\ score_metrics = DuplicateMetrics
    /\ \A r \in Runs : runs[r].pc = "idle"

\* C30: once two rows exist for (u1, 1), they and their metrics stay as they
\* are, no row is stored for the following date, and no score_day for either
\* date gets past its single-row lookup: unless it is cancelled it fails
\* there with MultipleResultsFound, and it never reaches the flush or the
\* commit.
C30_DuplicatesStay ==
    /\ ScoresOn(daily_scores, "u1", 1) = DuplicateRows
    /\ {m \in score_metrics : m.daily_score_id \in {1, 4}} = DuplicateMetrics
    /\ ScoresOn(daily_scores, "u1", 2) = {}
    /\ \A r \in Runs : AfterDuplicates(r) =>
          /\ runs[r].pc \notin {"persist_flush", "persist_commit", "done"}
          /\ runs[r].tx = NoTx
          /\ (runs[r].score_date = 1 /\ runs[r].pc = "failed"
                /\ runs[r].failed_at = "persist_select"
                /\ runs[r].error # "Cancelled") =>
                 runs[r].error = "MultipleResultsFound"
          /\ (runs[r].score_date = 2) =>
                 runs[r].pc \notin {"streaks", "persist_select"}
          /\ (runs[r].score_date = 2 /\ runs[r].pc = "failed"
                /\ runs[r].failed_at = "get_yesterday"
                /\ runs[r].error # "Cancelled") =>
                 runs[r].error = "MultipleResultsFound"

\* a later score_day for the duplicated date failed at the lookup of its row
C30_Witness ==
    \E r \in Runs :
        /\ AfterDuplicates(r)
        /\ runs[r].score_date = 1
        /\ runs[r].pc = "failed"
        /\ runs[r].failed_at = "persist_select"
        /\ runs[r].error = "MultipleResultsFound"

\* a score_day for the following date failed at the lookup of yesterday
C30_WitnessNextDay ==
    \E r \in Runs :
        /\ AfterDuplicates(r)
        /\ runs[r].score_date = 2
        /\ runs[r].pc = "failed"
        /\ runs[r].failed_at = "get_yesterday"
        /\ runs[r].error = "MultipleResultsFound"

=============================================================================
